---- MODULE Spec2Model ----
(***************************************************************************)
(* Model of configure.py, the VirtualBox configuration script: the probe   *)
(* abstraction (LibraryCheck, ToolCheck), the search-path resolver, the    *)
(* compile-and-execute verifier, the environment store and main().         *)
(*                                                                         *)
(* Python values are modelled as follows.  Strings are TLA+ strings.       *)
(* None is the string None.  The tri-state fHave is one of "None",         *)
(* "False", "True".  The host is a POSIX host (os.sep is "/").             *)
(***************************************************************************)
EXTENDS Integers, Sequences, FiniteSets, TLC

VARIABLES
    g_enmBuildTarget,   \* the build target (BuildTargets value)
    g_sHostArch,        \* platform.machine()
    g_fDebug,           \* debug mode
    g_cErrors,          \* global error counter
    oArgs,              \* the command line: the set of options given
    fsFiles,            \* header and library files that exist (full paths); a
                        \* run of main() first looks at them in the library loop
    fsDirs,             \* directories that exist
    fsExe,              \* executable files found to exist so far
    aoLibs,             \* library name -> mutable fields of its LibraryCheck
    aoTools,            \* tool name -> mutable fields of its ToolCheck
    oEnv,               \* EnvManager.env
    events,             \* what was called so far: << operation, probe name >>
    pc,                 \* position in main(), or the unit under test
    iCur,               \* index of the current loop iteration
    oCur,               \* the probe under test (unit specifications)
    sExc,               \* the exception the last call raised, or None
    tmpFiles,           \* temporary files and directories that exist
    artifacts,          \* artifacts written by the run
    rcExit,             \* process exit code, or None while running
    unitArgs,           \* the arguments of the function under test (unit
                        \* specifications of functions), or None
    unitRet             \* what the function under test returned, or None

vars == << g_enmBuildTarget, g_sHostArch, g_fDebug, g_cErrors, oArgs, fsFiles,
           fsDirs, fsExe, aoLibs, aoTools, oEnv, events, pc, iCur, oCur,
           sExc, tmpFiles, artifacts, rcExit, unitArgs, unitRet >>

None == "None"

-----------------------------------------------------------------------------
(* BuildTargets enumeration                                                *)

ANY == "any"
LINUX == "linux"
WINDOWS == "windows"
DARWIN == "darwin"
SOLARIS == "solaris"
BSD == "bsd"
HAIKU == "haiku"
UNKNOWN == "unknown"

BuildTargets == { LINUX, WINDOWS, DARWIN, SOLARIS, BSD, HAIKU, UNKNOWN }

\* g_enmHostTarget: the lookup table from platform.system().lower().
HostTargetOf(sHostTarget) ==
    CASE sHostTarget = "linux"   -> LINUX
      [] sHostTarget = "win"     -> WINDOWS
      [] sHostTarget = "darwin"  -> DARWIN
      [] sHostTarget = "solaris" -> SOLARIS
      [] sHostTarget = "freebsd" -> BSD
      [] sHostTarget = "openbsd" -> BSD
      [] sHostTarget = "netbsd"  -> BSD
      [] sHostTarget = "haiku"   -> HAIKU
      [] sHostTarget = ""        -> UNKNOWN
      [] OTHER                   -> UNKNOWN

-----------------------------------------------------------------------------
(* String helpers                                                          *)

OsSep == "/"

StartsWith(s, sPrefix) ==
    /\ Len(s) >= Len(sPrefix)
    /\ SubSeq(s, 1, Len(sPrefix)) = sPrefix

EndsWith(s, sSuffix) ==
    /\ Len(s) >= Len(sSuffix)
    /\ SubSeq(s, Len(s) - Len(sSuffix) + 1, Len(s)) = sSuffix

\* s[n:]
DropPrefix(s, n) == SubSeq(s, n + 1, Len(s))

HasChar(s, c) == \E i \in 1..Len(s) : SubSeq(s, i, i) = c

\* s.replace(cOld, cNew) for a one-character cOld
RECURSIVE StrReplace(_, _, _)
StrReplace(s, cOld, cNew) ==
    IF s = "" THEN ""
    ELSE (IF SubSeq(s, 1, 1) = cOld THEN cNew ELSE SubSeq(s, 1, 1))
         \o StrReplace(DropPrefix(s, 1), cOld, cNew)

\* os.path.join on a POSIX host.
OsPathJoin(a, b) ==
    IF StartsWith(b, "/") THEN b
    ELSE IF a = "" \/ EndsWith(a, "/") THEN a \o b
    ELSE a \o "/" \o b

\* os.path.basename of a direct child of sDir, or None if sPath is no such child.
ChildName(sDir, sPath) ==
    LET sPre == IF EndsWith(sDir, "/") THEN sDir ELSE sDir \o "/"
    IN  IF StartsWith(sPath, sPre) /\ Len(sPath) > Len(sPre)
           /\ ~HasChar(DropPrefix(sPath, Len(sPre)), "/")
        THEN DropPrefix(sPath, Len(sPre))
        ELSE None

RECURSIVE JoinQuoted(_)
JoinQuoted(as) ==
    IF as = << >> THEN ""
    ELSE IF Len(as) = 1 THEN "'" \o as[1] \o "'"
    ELSE "'" \o as[1] \o "', " \o JoinQuoted(Tail(as))

\* str() of a list of strings, as an f-string formats it.
PyListStr(as) == "[" \o JoinQuoted(as) \o "]"

\* fnmatch of a file name against a pattern "[set]*ext" without range or negation.
FnMatchClassStar(sName, sPattern, sExt) ==
    LET iClose == CHOOSE i \in 2..Len(sPattern) :
                      /\ SubSeq(sPattern, i, i) = "]"
                      /\ \A j \in 3..(i - 1) : SubSeq(sPattern, j, j) # "]"
        sSet   == SubSeq(sPattern, 2, iClose - 1)
    IN  /\ Len(sName) >= 1 + Len(sExt)
        /\ HasChar(sSet, SubSeq(sName, 1, 1))
        /\ EndsWith(sName, sExt)

-----------------------------------------------------------------------------
(* File system                                                             *)

g_sScriptPath == "/vbox"

PathExists(p) == p \in fsFiles \/ p \in fsDirs

IsFile(p) == p \in fsFiles

\* glob.glob(os.path.join(sDir, sList + "*" + sExt)), where sList is a list's str().
Glob(sDir, sList, sExt) ==
    { p \in fsFiles :
        /\ ChildName(sDir, p) # None
        /\ SubSeq(ChildName(sDir, p), 1, 1) # "."
        /\ FnMatchClassStar(ChildName(sDir, p), sList \o "*" \o sExt, sExt) }

RECURSIVE SeqFilter(_, _)
SeqFilter(as, S) ==
    IF as = << >> THEN << >>
    ELSE IF as[1] \in S THEN << as[1] >> \o SeqFilter(Tail(as), S)
    ELSE SeqFilter(Tail(as), S)

ExistingPaths(asPaths) == SeqFilter(asPaths, fsFiles \cup fsDirs)

-----------------------------------------------------------------------------
(* The probe catalog: a part of g_aoLibs and g_aoTools, in sorted order    *)

LibNames == << "libstdc++", "qt6", "xmu", "zlib1g" >>

LibSet == { LibNames[i] : i \in 1..Len(LibNames) }

g_aoLibs ==
    [ sName \in LibSet |->
        CASE sName = "libstdc++" ->
               [ asIncFiles |-> << "c++/11/iostream" >>,
                 asLibFiles |-> << >>,
                 aeTargets |-> { LINUX, SOLARIS, BSD },
                 aeTargetsExcluded |-> { },
                 asAltIncFiles |-> << "c++/4.8.2/iostream", "c++/iostream" >> ]
          [] sName = "qt6" ->
               [ asIncFiles |-> << "QtCore/qconfig.h" >>,
                 asLibFiles |-> << "libQt6Core" >>,
                 aeTargets |-> { ANY },
                 aeTargetsExcluded |-> { },
                 asAltIncFiles |-> << "qt/QtCore/qglobal.h", "QtCore/qcoreapplication.h",
                                      "qt6/QtCore/qcoreapplication.h" >> ]
          [] sName = "xmu" ->
               [ asIncFiles |-> << "X11/Xmu/Xmu.h" >>,
                 asLibFiles |-> << "libXmu" >>,
                 aeTargets |-> { LINUX, SOLARIS, BSD },
                 aeTargetsExcluded |-> { DARWIN },
                 asAltIncFiles |-> << >> ]
          [] sName = "zlib1g" ->
               [ asIncFiles |-> << "zlib.h" >>,
                 asLibFiles |-> << "libz" >>,
                 aeTargets |-> { ANY },
                 aeTargetsExcluded |-> { },
                 asAltIncFiles |-> << >> ] ]

\* LibraryCheck.__init__: the mutable fields.
LibraryCheckInit ==
    [ fDisabled |-> FALSE, sCustomPath |-> None, sIncPath |-> None,
      sLibPath |-> None, fHave |-> None, sVer |-> None ]

ToolNames == << "gsoap", "makeself", "openwatcom", "xcode" >>

ToolSet == { ToolNames[i] : i \in 1..Len(ToolNames) }

\* aeTargets defaults to the string BuildTargets.ANY: "x in aeTargets" is then a
\* substring test, which only the string "any" itself passes among the targets.
g_aoTools ==
    [ sName \in ToolSet |->
        CASE sName = "gsoap" ->
               [ asCmd |-> << "soapcpp2", "wsdl2h" >>, fnCallback |-> None,
                 aeTargets |-> { ANY } ]
          [] sName = "makeself" ->
               [ asCmd |-> << "makeself" >>, fnCallback |-> None,
                 aeTargets |-> { LINUX } ]
          [] sName = "openwatcom" ->
               [ asCmd |-> << "wcl", "wcl386", "wlink" >>,
                 fnCallback |-> "checkCallback_OpenWatcom", aeTargets |-> { ANY } ]
          [] sName = "xcode" ->
               [ asCmd |-> << >>, fnCallback |-> "checkCallback_XCode",
                 aeTargets |-> { DARWIN } ] ]

\* ToolCheck.__init__: the mutable fields.
ToolCheckInit ==
    [ fDisabled |-> FALSE, sCustomPath |-> None, fHave |-> None,
      sCmdPath |-> None, sVer |-> None ]

-----------------------------------------------------------------------------
(* Command line                                                            *)

\* The value given to every --with-<name>-path option.
CustomRoot == "/custom"

OptDisable(sName) == "--disable-" \o sName
OptWithPath(sName) == "--with-" \o sName \o "-path"
OptOnly(sName) == "--only-" \o sName

\* getattr(args, f"config_libs_disable_{sName}", False), as a truth value
ArgDisable(args, sName) == OptDisable(sName) \in args

\* getattr(args, f"config_libs_path_{sName}", None)
ArgPath(args, sName) == IF OptWithPath(sName) \in args THEN CustomRoot ELSE None

\* LibraryCheck.setArgs and ToolCheck.setArgs
SetArgs(st, args, sName) ==
    [ st EXCEPT !.fDisabled = ArgDisable(args, sName),
                !.sCustomPath = ArgPath(args, sName) ]

-----------------------------------------------------------------------------
(* Search-path resolver                                                    *)

getLinuxGnuTypeFromPlatform ==
    CASE g_sHostArch = "x86_64"  -> "x86_64-linux-gnu"
      [] g_sHostArch = "amd64"   -> "x86_64-linux-gnu"
      [] g_sHostArch = "i386"    -> "i386-linux-gnu"
      [] g_sHostArch = "i686"    -> "i386-linux-gnu"
      [] g_sHostArch = "aarch64" -> "aarch64-linux-gnu"
      [] g_sHostArch = "arm64"   -> "aarch64-linux-gnu"
      [] g_sHostArch = "armv7l"  -> "arm-linux-gnueabihf"
      [] g_sHostArch = "armv6l"  -> "arm-linux-gnueabi"
      [] g_sHostArch = "ppc64le" -> "powerpc64le-linux-gnu"
      [] g_sHostArch = "s390x"   -> "s390x-linux-gnu"
      [] g_sHostArch = "riscv64" -> "riscv64-linux-gnu"
      [] OTHER                   -> None

DriveLetters == "CDEFGHIJKLMNOPQRSTUVWXYZ"

\* [ d+":" for d in "CDEF..." if os.path.exists(d+":") ]
RECURSIVE RootDrives(_)
RootDrives(i) ==
    IF i > Len(DriveLetters) THEN << >>
    ELSE LET r == SubSeq(DriveLetters, i, i) \o ":"
         IN  (IF PathExists(r) THEN << r >> ELSE << >>) \o RootDrives(i + 1)

RECURSIVE WinPaths(_, _)
WinPaths(asRoots, sLeaf) ==
    IF asRoots = << >> THEN << >>
    ELSE << OsPathJoin(asRoots[1], "\\msys64\\mingw64\\" \o sLeaf),
            OsPathJoin(asRoots[1], "\\msys64\\mingw32\\" \o sLeaf),
            OsPathJoin(asRoots[1], "\\" \o sLeaf),
            "c:\\\\Program Files", "c:\\\\Program Files (x86)" >>
         \o WinPaths(Tail(asRoots), sLeaf)

\* "/usr/include/" + sGnuType raises TypeError when sGnuType is None.
IncSearchRaises == g_enmBuildTarget # WINDOWS /\ getLinuxGnuTypeFromPlatform = None

\* LibraryCheck.getIncSearchPaths, when it does not raise
getIncSearchPaths(sName, st) ==
    LET sGnuType == getLinuxGnuTypeFromPlatform
        asCustom == IF st.sCustomPath # None /\ st.sCustomPath # ""
                    THEN << OsPathJoin(st.sCustomPath, "include") >> ELSE << >>
        asTree   == << OsPathJoin(g_sScriptPath, "src/libs") >>
        asSys    == IF g_enmBuildTarget = WINDOWS
                    THEN WinPaths(RootDrives(1), "include")
                    ELSE << "/usr/include", "/usr/local/include",
                            "/usr/include/" \o sGnuType, "/usr/local/include/" \o sGnuType,
                            "/usr/include/" \o sName, "/usr/local/include/" \o sName,
                            "/opt/include", "/opt/local/include" >>
                         \o (IF g_enmBuildTarget = DARWIN
                             THEN << "/opt/homebrew/include" >> ELSE << >>)
    IN  ExistingPaths(asCustom \o asTree \o asSys)

LibSearchRaises ==
    /\ g_enmBuildTarget \in { LINUX, SOLARIS }
    /\ getLinuxGnuTypeFromPlatform = None

\* LibraryCheck.getLibSearchPaths, when it does not raise.  On Linux and Solaris
\* the list built so far is replaced, not extended.
getLibSearchPaths(sName, st) ==
    LET sGnuType == getLinuxGnuTypeFromPlatform
        asCustom == IF st.sCustomPath # None /\ st.sCustomPath # ""
                    THEN << OsPathJoin(st.sCustomPath, "lib") >> ELSE << >>
        asTree   == << OsPathJoin(g_sScriptPath, "src/libs") >>
        asPaths  == IF g_enmBuildTarget = WINDOWS
                    THEN asCustom \o asTree \o WinPaths(RootDrives(1), "lib")
                    ELSE IF g_enmBuildTarget \in { LINUX, SOLARIS }
                    THEN << "/usr/lib", "/usr/local/lib",
                            "/usr/lib/" \o sGnuType, "/opt/local/lib/" \o sGnuType,
                            "/usr/lib64", "/lib", "/lib64",
                            "/opt/lib", "/opt/local/lib" >>
                    ELSE asCustom \o asTree \o << "/opt/homebrew/lib" >>
    IN  ExistingPaths(asPaths)

-----------------------------------------------------------------------------
(* LibraryCheck                                                            *)

\* Whether sCurHeader is a file below sCurSearchPath (both separator forms).
HeaderIn(sCurSearchPath, sCurHeader) ==
    \/ IsFile(OsPathJoin(sCurSearchPath, sCurHeader))
    \/ /\ OsSep = "\\"
       /\ IsFile(OsPathJoin(sCurSearchPath, StrReplace(sCurHeader, "/", "\\")))

\* The loop of checkInc: the first search path holding one of the headers, or None.
RECURSIVE FirstIncPath(_, _)
FirstIncPath(asSearchPaths, asHeaderToSearch) ==
    IF asSearchPaths = << >> THEN None
    ELSE IF \E i \in 1..Len(asHeaderToSearch) :
                HeaderIn(asSearchPaths[1], asHeaderToSearch[i])
    THEN asSearchPaths[1]
    ELSE FirstIncPath(Tail(asSearchPaths), asHeaderToSearch)

\* A variant of checkInc that looks for the primary header names only.
checkInc_PrimaryOnly(sName, st) ==
    LET d == g_aoLibs[sName]
        sFound == FirstIncPath(getIncSearchPaths(sName, st), d.asIncFiles)
    IN  IF d.asIncFiles \o d.asAltIncFiles = << >>
        THEN [ fRet |-> TRUE, sIncPath |-> st.sIncPath, cErr |-> 0 ]
        ELSE IF sFound # None
        THEN [ fRet |-> TRUE, sIncPath |-> sFound, cErr |-> 0 ]
        ELSE [ fRet |-> FALSE, sIncPath |-> st.sIncPath, cErr |-> 1 ]

\* LibraryCheck.checkInc: the value returned, the include root and the errors printed.
checkInc(sName, st) ==
    LET d == g_aoLibs[sName]
        asHeaderToSearch == d.asIncFiles \o d.asAltIncFiles
        sFound == FirstIncPath(getIncSearchPaths(sName, st), asHeaderToSearch)
    IN  IF asHeaderToSearch = << >>
        THEN [ fRet |-> TRUE, sIncPath |-> st.sIncPath, cErr |-> 0 ]
        ELSE IF sFound # None
        THEN [ fRet |-> TRUE, sIncPath |-> sFound, cErr |-> 0 ]
        ELSE [ fRet |-> FALSE, sIncPath |-> st.sIncPath, cErr |-> 1 ]

\* asLibExts of checkLib
LibExts ==
    IF g_enmBuildTarget = WINDOWS THEN << ".lib", ".dll", ".a", ".dll.a" >>
    ELSE IF g_enmBuildTarget = DARWIN THEN << ".a", ".dylib", ".so" >>
    ELSE << ".a", ".so" >>

\* The loop of checkLib: the first search path where the pattern matches a file.
\* sBasename is the whole list asLibFiles, formatted into the pattern by str().
RECURSIVE FirstLibPath(_, _, _)
FirstLibPath(asSearchPaths, sBasename, asLibExts) ==
    IF asSearchPaths = << >> THEN None
    ELSE IF \E i \in 1..Len(asLibExts) :
                Glob(asSearchPaths[1], PyListStr(sBasename), asLibExts[i]) # { }
    THEN asSearchPaths[1]
    ELSE FirstLibPath(Tail(asSearchPaths), sBasename, asLibExts)

\* LibraryCheck.checkLib: the value returned, the library root and the errors printed.
checkLib(sName, st) ==
    LET d == g_aoLibs[sName]
        sFound == FirstLibPath(getLibSearchPaths(sName, st), d.asLibFiles, LibExts)
    IN  IF d.asLibFiles = << >>
        THEN [ fRet |-> TRUE, sLibPath |-> st.sLibPath, cErr |-> 0 ]
        ELSE IF sFound # None
        THEN [ fRet |-> TRUE, sLibPath |-> sFound, cErr |-> 0 ]
        ELSE [ fRet |-> FALSE, sLibPath |-> st.sLibPath, cErr |-> 1 ]

PyBool(f) == IF f THEN "True" ELSE "False"

\* A variant of LibSearch that takes the header evidence alone for the status.
LibSearch_HeaderOnly(sName, st) ==
    LET d   == g_aoLibs[sName]
        inc == checkInc(sName, st)
    IN  IF d.asIncFiles \o d.asAltIncFiles # << >> /\ IncSearchRaises
        THEN [ st |-> st, cErr |-> 0, sExc |-> "TypeError", fSearched |-> TRUE ]
        ELSE [ st |-> [ st EXCEPT !.sIncPath = inc.sIncPath, !.fHave = PyBool(inc.fRet) ],
               cErr |-> inc.cErr, sExc |-> None, fSearched |-> TRUE ]

\* self.fHave = self.checkInc() and self.checkLib()
LibSearch(sName, st) ==
    LET d   == g_aoLibs[sName]
        inc == checkInc(sName, st)
        lib == checkLib(sName, [ st EXCEPT !.sIncPath = inc.sIncPath ])
    IN  IF d.asIncFiles \o d.asAltIncFiles # << >> /\ IncSearchRaises
        THEN [ st |-> st, cErr |-> 0, sExc |-> "TypeError", fSearched |-> TRUE ]
        ELSE IF ~inc.fRet
        THEN [ st |-> [ st EXCEPT !.fHave = "False" ],
               cErr |-> inc.cErr, sExc |-> None, fSearched |-> TRUE ]
        ELSE IF d.asLibFiles # << >> /\ LibSearchRaises
        THEN [ st |-> [ st EXCEPT !.sIncPath = inc.sIncPath ],
               cErr |-> 0, sExc |-> "TypeError", fSearched |-> TRUE ]
        ELSE [ st |-> [ st EXCEPT !.sIncPath = inc.sIncPath,
                                  !.sLibPath = lib.sLibPath,
                                  !.fHave = PyBool(lib.fRet) ],
               cErr |-> lib.cErr, sExc |-> None, fSearched |-> TRUE ]

\* A variant of LibraryCheck.performCheck that searches without looking at the
\* build target.
LibPerformCheck_NoTargets(sName, st) ==
    IF st.fDisabled
    THEN [ st |-> [ st EXCEPT !.fHave = None ],
           cErr |-> 0, sExc |-> None, fSearched |-> FALSE ]
    ELSE LibSearch(sName, st)

\* LibraryCheck.performCheck: the fields after the call, the errors printed, the
\* exception raised and whether a search step was performed.
LibPerformCheck(sName, st) ==
    LET d == g_aoLibs[sName]
    IN  IF g_enmBuildTarget \in d.aeTargetsExcluded
        THEN [ st |-> [ st EXCEPT !.fHave = None ],
               cErr |-> 0, sExc |-> None, fSearched |-> FALSE ]
        ELSE IF st.fDisabled
        THEN [ st |-> [ st EXCEPT !.fHave = None ],
               cErr |-> 0, sExc |-> None, fSearched |-> FALSE ]
        ELSE IF g_enmBuildTarget \in d.aeTargets \/ ANY \in d.aeTargets
        THEN LibSearch(sName, st)
        ELSE [ st |-> st, cErr |-> 0, sExc |-> None, fSearched |-> FALSE ]

-----------------------------------------------------------------------------
(* checkWhich and ToolCheck                                                *)

\* The directories of PATH.
EnvPath == << "/usr/bin" >>

\* shutil.which(sCmdName) over the executable files exe
RECURSIVE Which(_, _, _)
Which(asDirs, sCmdName, exe) ==
    IF asDirs = << >> THEN None
    ELSE IF OsPathJoin(asDirs[1], sCmdName) \in exe
    THEN OsPathJoin(asDirs[1], sCmdName)
    ELSE Which(Tail(asDirs), sCmdName, exe)

\* What the version queries of a binary do: "ver", a switch exits with 0 and prints
\* a version; "nonzero", every switch exits nonzero; "timeout", a query raises a
\* SubprocessError; "empty", a switch exits with 0 and prints nothing.
VerOutcomes == { "ver", "nonzero", "timeout", "empty" }

\* The first line a successful version query prints.
VersionLine == "1.0"

\* A variant of checkWhich that falls back to PATH when the binary is not below
\* the custom path.
checkWhich_FallbackToPath(sCmdName, sCustomPath, exe, vq) ==
    LET fCustom  == sCustomPath # None /\ sCustomPath # ""
        sCmdPath == IF fCustom /\ OsPathJoin(sCustomPath, sCmdName) \in exe
                    THEN OsPathJoin(sCustomPath, sCmdName)
                    ELSE Which(EnvPath, sCmdName, exe)
    IN  IF sCmdPath = None
        THEN [ sCmdPath |-> None, sVer |-> None, cErr |-> 1, sExc |-> None ]
        ELSE CASE vq = "ver" ->
                    [ sCmdPath |-> sCmdPath, sVer |-> VersionLine, cErr |-> 0, sExc |-> None ]
               [] vq = "nonzero" ->
                    [ sCmdPath |-> sCmdPath, sVer |-> "<unknown>", cErr |-> 0, sExc |-> None ]
               [] vq = "timeout" ->
                    [ sCmdPath |-> None, sVer |-> None, cErr |-> 1, sExc |-> None ]
               [] OTHER ->
                    [ sCmdPath |-> None, sVer |-> None, cErr |-> 0, sExc |-> "IndexError" ]

\* checkWhich: (command path, version), the errors printed and the exception raised.
\* exe are the executable files that exist, vq is what the version queries do.
checkWhich(sCmdName, sCustomPath, exe, vq) ==
    LET fCustom  == sCustomPath # None /\ sCustomPath # ""
        sCmdPath == IF fCustom THEN OsPathJoin(sCustomPath, sCmdName)
                    ELSE Which(EnvPath, sCmdName, exe)
    IN  IF fCustom /\ sCmdPath \notin exe
        THEN [ sCmdPath |-> None, sVer |-> None, cErr |-> 1, sExc |-> None ]
        ELSE IF sCmdPath = None
        THEN [ sCmdPath |-> None, sVer |-> None, cErr |-> 1, sExc |-> None ]
        ELSE CASE vq = "ver" ->
                    [ sCmdPath |-> sCmdPath, sVer |-> VersionLine, cErr |-> 0, sExc |-> None ]
               [] vq = "nonzero" ->
                    [ sCmdPath |-> sCmdPath, sVer |-> "<unknown>", cErr |-> 0, sExc |-> None ]
               [] vq = "timeout" ->
                    [ sCmdPath |-> None, sVer |-> None, cErr |-> 1, sExc |-> None ]
               [] OTHER ->
                    [ sCmdPath |-> None, sVer |-> None, cErr |-> 0, sExc |-> "IndexError" ]

\* g_enmBuildArch: the lookup table from platform.machine().
g_enmBuildArch ==
    CASE g_sHostArch \in { "i386", "i686" }    -> "x86"
      [] g_sHostArch \in { "x86_64", "amd64" } -> "amd64"
      [] g_sHostArch \in { "aarch64", "arm64" } -> "arm64"
      [] OTHER -> "unknown"

\* mapBuildTarget2Bin.get(g_enmBuildTarget, None)
OpenWatcomBinSubdir ==
    CASE g_enmBuildTarget = DARWIN  -> "binosx"
      [] g_enmBuildTarget = LINUX   -> IF g_enmBuildArch = "amd64" THEN "binl64" ELSE "arml64"
      [] g_enmBuildTarget = SOLARIS -> "binsol"
      [] g_enmBuildTarget = WINDOWS -> "binnt"
      [] g_enmBuildTarget = BSD     -> "binnbsd"
      [] OTHER -> None

\* The loop of checkCallback_OpenWatcom over the commands left
RECURSIVE OpenWatcomLoop(_, _, _, _, _)
OpenWatcomLoop(asCmd, st, cErr, exe, vq) ==
    IF asCmd = << >> THEN [ st |-> st, fRet |-> TRUE, cErr |-> cErr, sExc |-> None ]
    ELSE LET sCustom == IF st.sCustomPath # None /\ st.sCustomPath # ""
                        THEN OsPathJoin(st.sCustomPath, OpenWatcomBinSubdir) ELSE None
             r   == checkWhich(asCmd[1], sCustom, exe, vq[asCmd[1]])
             st2 == [ st EXCEPT !.sCmdPath = r.sCmdPath, !.sVer = r.sVer ]
         IN  IF r.sExc # None
             THEN [ st |-> st, fRet |-> FALSE, cErr |-> cErr + r.cErr, sExc |-> r.sExc ]
             ELSE IF r.sCmdPath = None
             THEN [ st |-> st2, fRet |-> FALSE, cErr |-> cErr + r.cErr, sExc |-> None ]
             ELSE OpenWatcomLoop(Tail(asCmd), st2, cErr + r.cErr, exe, vq)

\* ToolCheck.checkCallback_OpenWatcom
checkCallback_OpenWatcom(sName, st, exe, vq) ==
    IF OpenWatcomBinSubdir = None
    THEN [ st |-> st, fRet |-> FALSE, cErr |-> 1, sExc |-> None ]
    ELSE OpenWatcomLoop(g_aoTools[sName].asCmd, st, 0, exe, vq)

XcodeDefaultPath == "/Library/Developer/CommandLineTools"

\* os.path.isdir, for a directory known by the files below it
IsDirOf(p, exe) == p \in fsDirs \/ \E f \in exe : StartsWith(f, p \o "/")

\* The loop of checkCallback_XCode over the paths left
RECURSIVE XCodeLoop(_, _, _)
XCodeLoop(asPathsToCheck, st, exe) ==
    IF asPathsToCheck = << >>
    THEN [ st |-> st, fRet |-> FALSE, cErr |-> 1, sExc |-> None ]
    ELSE LET sPathClang      == OsPathJoin(asPathsToCheck[1], "usr/bin/clang")
             sPathXcodebuild == OsPathJoin(asPathsToCheck[1], "usr/bin/xcodebuild")
         IN  IF /\ IsDirOf(asPathsToCheck[1], exe)
                /\ sPathClang \in exe
                /\ sPathXcodebuild \in exe
             THEN [ st |-> [ st EXCEPT !.sCmdPath = sPathXcodebuild ],
                    fRet |-> TRUE, cErr |-> 0, sExc |-> None ]
             ELSE XCodeLoop(Tail(asPathsToCheck), st, exe)

\* ToolCheck.checkCallback_XCode
checkCallback_XCode(st, exe) ==
    XCodeLoop((IF st.sCustomPath # None /\ st.sCustomPath # ""
               THEN << st.sCustomPath >> ELSE << >>) \o << XcodeDefaultPath >>,
              st, exe)

\* The loop of ToolCheck.performCheck over the commands left: every command found
\* sets fHave, the first one missing returns.
RECURSIVE ToolCmdLoop(_, _, _, _, _)
ToolCmdLoop(asCmd, st, cErr, exe, vq) ==
    IF asCmd = << >> THEN [ st |-> st, cErr |-> cErr, sExc |-> None, fSearched |-> TRUE ]
    ELSE LET r   == checkWhich(asCmd[1], st.sCustomPath, exe, vq[asCmd[1]])
             st2 == [ st EXCEPT !.sCmdPath = r.sCmdPath, !.sVer = r.sVer ]
         IN  IF r.sExc # None
             THEN [ st |-> st, cErr |-> cErr + r.cErr, sExc |-> r.sExc, fSearched |-> TRUE ]
             ELSE IF r.sCmdPath # None
             THEN ToolCmdLoop(Tail(asCmd), [ st2 EXCEPT !.fHave = "True" ],
                              cErr + r.cErr, exe, vq)
             ELSE [ st |-> st2, cErr |-> cErr + r.cErr, sExc |-> None, fSearched |-> TRUE ]

\* A variant of ToolCheck.performCheck that looks for the binaries of a
\* disabled tool as well.
ToolPerformCheck_IgnoreDisabled(sName, st, exe, vq) ==
    LET d == g_aoTools[sName]
    IN  IF (g_enmBuildTarget \in d.aeTargets \/ ANY \in d.aeTargets) /\ d.fnCallback = None
        THEN ToolCmdLoop(d.asCmd, st, 0, exe, vq)
        ELSE [ st |-> st, cErr |-> 0, sExc |-> None, fSearched |-> FALSE ]

\* ToolCheck.performCheck: the fields after the call, the errors printed, the
\* exception raised and whether a search step was performed.
ToolPerformCheck(sName, st, exe, vq) ==
    LET d == g_aoTools[sName]
    IN  IF st.fDisabled
        THEN [ st |-> [ st EXCEPT !.fHave = None ],
               cErr |-> 0, sExc |-> None, fSearched |-> FALSE ]
        ELSE IF g_enmBuildTarget \in d.aeTargets \/ ANY \in d.aeTargets
        THEN IF d.fnCallback # None
             THEN LET r == IF d.fnCallback = "checkCallback_OpenWatcom"
                           THEN checkCallback_OpenWatcom(sName, st, exe, vq)
                           ELSE checkCallback_XCode(st, exe)
                  IN  IF r.sExc # None
                      THEN [ st |-> r.st, cErr |-> r.cErr, sExc |-> r.sExc,
                             fSearched |-> TRUE ]
                      ELSE [ st |-> [ r.st EXCEPT !.fHave = PyBool(r.fRet) ],
                             cErr |-> r.cErr, sExc |-> None, fSearched |-> TRUE ]
             ELSE ToolCmdLoop(d.asCmd, st, 0, exe, vq)
        ELSE [ st |-> st, cErr |-> 0, sExc |-> None, fSearched |-> FALSE ]

\* The executable files a check of the tool may look at.
ToolCandidates(sName, st) ==
    LET d == g_aoTools[sName]
        asRoots == { EnvPath[i] : i \in 1..Len(EnvPath) }
                   \cup (IF st.sCustomPath = None THEN { }
                         ELSE IF d.fnCallback = "checkCallback_OpenWatcom"
                         THEN { OsPathJoin(st.sCustomPath, OpenWatcomBinSubdir) }
                         ELSE { st.sCustomPath })
    IN  IF d.fnCallback = "checkCallback_XCode"
        THEN { OsPathJoin(r, f) :
                 r \in { XcodeDefaultPath } \cup
                       (IF st.sCustomPath # None THEN { st.sCustomPath } ELSE { }),
                 f \in { "usr/bin/clang", "usr/bin/xcodebuild" } }
        ELSE { OsPathJoin(r, d.asCmd[i]) : r \in asRoots, i \in 1..Len(d.asCmd) }

\* A version query runs only for a binary that was located: the outcome drawn
\* for a binary no candidate of which exists is never looked at.
Unqueried(sName, st, exe, vq) ==
    \A c \in DOMAIN vq :
        (\A f \in ToolCandidates(sName, st) : f \in exe => ~EndsWith(f, "/" \o c))
            => vq[c] = "ver"

-----------------------------------------------------------------------------
(* Compile-execute verifier                                                *)

\* c in h for strings
Contains(h, c) ==
    \E i \in 1..(Len(h) - Len(c) + 1) : SubSeq(h, i, i + Len(c) - 1) = c

asCPPHdr == { "c++", "iostream", "Qt", "qt", "qglobal.h", "qcoreapplication.h" }

\* LibraryCheck.hasCPPHeader: the first element tested is the list asIncFiles
\* itself ("c in h" is then list membership), the others are the alternate names.
hasCPPHeader(sName) ==
    LET d == g_aoLibs[sName]
    IN  \/ /\ d.asIncFiles # << >>
           /\ \E c \in asCPPHdr : \E i \in 1..Len(d.asIncFiles) : d.asIncFiles[i] = c
        \/ \E i \in 1..Len(d.asAltIncFiles) :
              /\ d.asAltIncFiles[i] # ""
              /\ \E c \in asCPPHdr : Contains(d.asAltIncFiles[i], c)

\* A variant of getLinkerArgs that passes every basename unchanged after -l.
getLinkerArgs_KeepPrefix(asLibFiles) ==
    IF g_enmBuildTarget = WINDOWS THEN << >>
    ELSE [ i \in 1..Len(asLibFiles) |-> "-l" \o asLibFiles[i] ]

\* LibraryCheck.getLinkerArgs for a probe whose asLibFiles is the given list: one
\* flag per basename on a non-Windows target, none on Windows.
getLinkerArgs(asLibFiles) ==
    IF asLibFiles = << >> THEN << >>
    ELSE IF g_enmBuildTarget # WINDOWS
    THEN [ i \in 1..Len(asLibFiles) |->
             LET sLibCur == asLibFiles[i]
             IN  "-l" \o (IF StartsWith(sLibCur, "lib")
                          THEN SubSeq(sLibCur, 4, Len(sLibCur))
                          ELSE ":" \o sLibCur) ]
    ELSE << >>

\* The directory tempfile.TemporaryDirectory() creates.
TempDirName == "/tmp/tmpbuild"

\* What the compiler run does: "ok", exit code 0 and a binary; "fail", a nonzero
\* exit code; "timeout", a SubprocessError; "oserror", the compiler cannot be started.
CompileOutcomes == { "ok", "fail", "timeout", "oserror" }

\* What the run of the test binary does: "ok", exit code 0; "fail", a nonzero exit
\* code; "timeout", a SubprocessError; "oserror", the binary cannot be started.
ExecOutcomes == { "ok", "fail", "timeout", "oserror" }

\* sFilePath and sBinPath of compileAndExecute
TestFilePath(sName, fDebug) ==
    OsPathJoin(IF fDebug THEN "/tmp/" ELSE TempDirName,
               IF hasCPPHeader(sName) THEN "testlib.cpp" ELSE "testlib.c")

TestBinPath(fDebug) == OsPathJoin(IF fDebug THEN "/tmp/" ELSE TempDirName, "a.out")

\* TemporaryDirectory.__exit__: the directory and everything below it is removed.
TempDirCleanup(files) ==
    { f \in files : f # TempDirName /\ ~StartsWith(f, TempDirName \o "/") }

\* A variant of compileAndExecute that takes the output of a test binary that
\* exited nonzero for the version.
compileAndExecute_VersionOnFailure(sName, st, files, fDebug, comp, exec, sOut) ==
    [ st    |-> IF comp = "ok" /\ exec \in { "ok", "fail" }
                THEN [ st EXCEPT !.sVer = sOut ] ELSE st,
      cErr  |-> IF comp = "ok" /\ exec = "ok" THEN 0 ELSE 1,
      sExc  |-> IF comp = "oserror" \/ (comp = "ok" /\ exec = "oserror")
                THEN "OSError" ELSE None,
      files |-> TempDirCleanup(files) ]

\* A variant of compileAndExecute that leaves the temporary directory behind
\* when the compiler or the test binary cannot be started.
compileAndExecute_LeakOnRaise(sName, st, files, fDebug, comp, exec, sOut) ==
    LET sFilePath == TestFilePath(sName, fDebug)
        sBinPath  == TestBinPath(fDebug)
        filesSrc  == files \cup { TempDirName, sFilePath }
        filesBin  == IF comp = "ok" THEN filesSrc \cup { sBinPath } ELSE filesSrc
        filesRun  == IF comp = "ok" /\ ~fDebug THEN filesBin \ { sBinPath } ELSE filesBin
        fRaised   == comp = "oserror" \/ (comp = "ok" /\ exec = "oserror")
    IN  [ st    |-> IF comp = "ok" /\ exec = "ok" THEN [ st EXCEPT !.sVer = sOut ] ELSE st,
          cErr  |-> IF fRaised \/ (comp = "ok" /\ exec = "ok") THEN 0 ELSE 1,
          sExc  |-> IF fRaised THEN "OSError" ELSE None,
          files |-> IF fRaised THEN filesRun ELSE TempDirCleanup(filesRun) ]

\* LibraryCheck.compileAndExecute: the fields after the call, the errors printed,
\* the exception raised and the temporary files left.  comp and exec are what the
\* compiler and the test binary do, sOut is what the test binary prints.
compileAndExecute(sName, st, files, fDebug, comp, exec, sOut) ==
    LET sFilePath == TestFilePath(sName, fDebug)
        sBinPath  == TestBinPath(fDebug)
        filesSrc  == files \cup { TempDirName, sFilePath }
        filesBin  == IF comp = "ok" THEN filesSrc \cup { sBinPath } ELSE filesSrc
        \* the finally clause of the execution: os.remove(sBinPath) unless debugging
        filesRun  == IF comp = "ok" /\ ~fDebug THEN filesBin \ { sBinPath } ELSE filesBin
        stRun     == IF comp = "ok" /\ exec = "ok" THEN [ st EXCEPT !.sVer = sOut ] ELSE st
        cErr      == CASE comp = "fail"    -> 1
                       [] comp = "timeout" -> 1
                       [] comp = "oserror" -> 0
                       [] exec = "ok"      -> 0
                       [] exec = "fail"    -> 2
                       [] exec = "timeout" -> 1
                       [] OTHER            -> 0
        sRaised   == IF comp = "oserror" \/ (comp = "ok" /\ exec = "oserror")
                     THEN "OSError" ELSE None
    IN  [ st |-> stRun, cErr |-> cErr, sExc |-> sRaised,
          files |-> TempDirCleanup(filesRun) ]

-----------------------------------------------------------------------------
(* EnvManager.  A value is [ t, s ]: its Python type and its str().        *)

PyStr(s) == [ t |-> "str", s |-> s ]
PyTrue == [ t |-> "bool", s |-> "True" ]
PyFalse == [ t |-> "bool", s |-> "False" ]
PyInt0 == [ t |-> "int", s |-> "0" ]
PyNone == [ t |-> "NoneType", s |-> "None" ]

\* Python truth value
Truthy(v) ==
    CASE v.t = "str"  -> v.s # ""
      [] v.t = "bool" -> v.s = "True"
      [] v.t = "int"  -> v.s # "0"
      [] OTHER        -> FALSE

\* The upper-case form of each lower-case letter.
UpperOf ==
    [ a |-> "A", b |-> "B", c |-> "C", d |-> "D", e |-> "E", f |-> "F", g |-> "G",
      h |-> "H", i |-> "I", j |-> "J", k |-> "K", l |-> "L", m |-> "M", n |-> "N",
      o |-> "O", p |-> "P", q |-> "Q", r |-> "R", s |-> "S", t |-> "T", u |-> "U",
      v |-> "V", w |-> "W", x |-> "X", y |-> "Y", z |-> "Z" ]

UpperChar(c) == IF c \in DOMAIN UpperOf THEN UpperOf[c] ELSE c

\* str.upper()
RECURSIVE Upper(_)
Upper(s) == IF s = "" THEN "" ELSE UpperChar(SubSeq(s, 1, 1)) \o Upper(DropPrefix(s, 1))

\* env[sKey] = oVal
EnvPut(env, sKey, oVal) ==
    [ k \in DOMAIN env \cup { sKey } |-> IF k = sKey THEN oVal ELSE env[k] ]

\* EnvManager.set: a str is stored, a bool becomes '1' or '', anything else is dropped.
EnvSet(env, sKey, oVal) ==
    CASE oVal.t = "str"  -> EnvPut(env, sKey, oVal)
      [] oVal.t = "bool" -> EnvPut(env, sKey, PyStr(IF oVal.s = "True" THEN "1" ELSE ""))
      [] OTHER           -> env

\* EnvManager.get
EnvGet(env, sKey, oDefault) == IF sKey \in DOMAIN env THEN env[sKey] ELSE oDefault

g_sEnvVarPrefix == "VBOX_"

\* The key and value updateFromArgs stores for one attribute of the namespace.
EnvKeyOfArg(sKey) ==
    IF StartsWith(sKey, "vbox_env_")
    THEN LET sRest == DropPrefix(sKey, Len("vbox_env_"))
         IN  Upper(g_sEnvVarPrefix \o
                   (IF StartsWith(sRest, "sete_") \/ StartsWith(sRest, "set1_")
                       \/ StartsWith(sRest, "set0_")
                    THEN DropPrefix(sRest, 5) ELSE sRest))
    ELSE Upper(sKey)

EnvValOfArg(sKey, aValue) ==
    IF StartsWith(sKey, "vbox_env_")
    THEN LET sRest == DropPrefix(sKey, Len("vbox_env_"))
         IN  CASE StartsWith(sRest, "sete_") -> PyStr("")
               [] StartsWith(sRest, "set1_") -> PyStr("1")
               [] StartsWith(sRest, "set0_") -> PyStr("0")
               [] OTHER -> aValue
    ELSE aValue

\* EnvManager.updateFromArgs; ns is the argparse namespace as a sequence of
\* << dest, value >> in the order of add_argument.  The loop assigns
\* self.env[sKey] for every attribute whose value is not None, so a key ends
\* with the value of the last attribute that maps to it.
updateFromArgs(env, ns) ==
    LET asKeys == [ i \in 1..Len(ns) |-> EnvKeyOfArg(ns[i][1]) ]
        aiSet  == { i \in 1..Len(ns) : ns[i][2] # PyNone }
        Last(k) == CHOOSE i \in aiSet :
                       /\ asKeys[i] = k
                       /\ \A j \in aiSet : asKeys[j] = k => j <= i
    IN  [ k \in DOMAIN env \cup { asKeys[i] : i \in aiSet } |->
            IF \E i \in aiSet : asKeys[i] = k
            THEN EnvValOfArg(ns[Last(k)][1], ns[Last(k)][2])
            ELSE env[k] ]

\* env.update(result)
RECURSIVE EnvUpdate(_, _)
EnvUpdate(env, result) ==
    IF result = << >> THEN env
    ELSE EnvUpdate(EnvPut(env, result[1][1], result[1][2]), Tail(result))

\* A variant of envTransforms whose last rule also writes a key that earlier
\* rules read.
envTransforms_Feedback(i, env) ==
    LET fAdd == Truthy(EnvGet(env, "VBOX_ONLY_ADDITIONS", PyStr("")))
    IN  CASE i = 1 -> IF fAdd \/ EnvGet(env, "VBOX_WITH_DOCS", PyStr("")) = PyStr("")
                      THEN << << "VBOX_WITH_DOCS_PACKING", PyStr("") >> >> ELSE << >>
          [] i = 2 -> IF fAdd \/ EnvGet(env, "VBOX_OSE", PyStr("")) = PyStr("1")
                      THEN << << "VBOX_WITH_EXTPACK_VNC", PyStr("") >> >> ELSE << >>
          [] i = 3 -> IF fAdd
                      THEN << << "VBOX_WITH_WEBSERVICES", PyStr("") >> >> ELSE << >>
          [] i = 4 -> IF Truthy(EnvGet(env, "VBOX_OSE", PyStr("")))
                      THEN << << "VBOX_WITH_VALIDATIONKIT", PyStr("") >>,
                              << "VBOX_WITH_WIN32_ADDITIONS", PyStr("") >> >> ELSE << >>
          [] i = 5 -> IF fAdd
                      THEN << << "VBOX_WITH_EXTPACK_PUEL_BUILD", PyStr("") >> >> ELSE << >>
          [] OTHER -> << << "VBOX_WITH_QTGUI", PyStr("") >>,
                         << "VBOX_ONLY_ADDITIONS", PyStr("1") >> >>

\* The rules of envTransforms; each reads the store oEnv and returns the pairs to set.
envTransforms(i, env) ==
    LET fAdd == Truthy(EnvGet(env, "VBOX_ONLY_ADDITIONS", PyStr("")))
    IN  CASE i = 1 -> IF fAdd \/ EnvGet(env, "VBOX_WITH_DOCS", PyStr("")) = PyStr("")
                      THEN << << "VBOX_WITH_DOCS_PACKING", PyStr("") >> >> ELSE << >>
          [] i = 2 -> IF fAdd \/ EnvGet(env, "VBOX_OSE", PyStr("")) = PyStr("1")
                      THEN << << "VBOX_WITH_EXTPACK_VNC", PyStr("") >> >> ELSE << >>
          [] i = 3 -> IF fAdd
                      THEN << << "VBOX_WITH_WEBSERVICES", PyStr("") >> >> ELSE << >>
          [] i = 4 -> IF Truthy(EnvGet(env, "VBOX_OSE", PyStr("")))
                      THEN << << "VBOX_WITH_VALIDATIONKIT", PyStr("") >>,
                              << "VBOX_WITH_WIN32_ADDITIONS", PyStr("") >> >> ELSE << >>
          [] i = 5 -> IF fAdd
                      THEN << << "VBOX_WITH_EXTPACK_PUEL_BUILD", PyStr("") >> >> ELSE << >>
          [] OTHER -> IF Truthy(EnvGet(env, "CONFIG_LIBS_DISABLE_QT", PyStr("")))
                      THEN << << "VBOX_WITH_QTGUI", PyStr("") >> >> ELSE << >>

NumTransforms == 6

\* The list envTransforms of main(): its rules in order.
envTransformRules == [ i \in 1..NumTransforms |-> [ kind |-> "script", i |-> i ] ]

\* exprCur(self.env): what a rule returns on the store env, as whether it is a dict
\* and the pairs it holds.  A "script" rule is a rule of envTransforms; a "derive"
\* rule returns { sWrite: str(env.get(sRead, '')) + 'x' }; any other rule returns
\* None.
RuleResult(rule, env) ==
    CASE rule.kind = "script" ->
           [ fDict |-> TRUE, items |-> envTransforms(rule.i, env) ]
      [] rule.kind = "derive" ->
           [ fDict |-> TRUE,
             items |-> << << rule.sWrite,
                             PyStr(EnvGet(env, rule.sRead, PyStr("")).s \o "x") >> >> ]
      [] OTHER ->
           [ fDict |-> FALSE, items |-> << >> ]

\* A variant of transform that evaluates every rule on the store the call
\* started with.
RECURSIVE TransformFrom(_, _, _)
TransformFrom(env, envStart, mapTransform) ==
    IF mapTransform = << >> THEN env
    ELSE LET result == RuleResult(mapTransform[1], envStart)
         IN  TransformFrom(IF result.fDict THEN EnvUpdate(env, result.items) ELSE env,
                           envStart, Tail(mapTransform))

transform_Snapshot(env, mapTransform) == TransformFrom(env, env, mapTransform)

\* EnvManager.transform: each rule of the list is evaluated on the store as it is
\* then, and a dict it returns is merged before the next rule runs.
RECURSIVE transform(_, _)
transform(env, mapTransform) ==
    IF mapTransform = << >> THEN env
    ELSE LET result == RuleResult(mapTransform[1], env)
         IN  transform(IF result.fDict THEN EnvUpdate(env, result.items) ELSE env,
                       Tail(mapTransform))

\* func(self.env[key]) for the functions a caller of modify passes: "ident"
\* returns its argument, "append" returns str(v) + 'x'.
ApplyFunc(func, v) ==
    IF func = "ident" THEN v ELSE PyStr(v.s \o "x")

\* A variant of modify that creates an absent key with func('').
modify_CreateKey(env, key, func) ==
    [ env  |-> EnvPut(env, key, PyStr(ApplyFunc(func, EnvGet(env, key, PyStr(""))).s)),
      sExc |-> None ]

\* EnvManager.modify: the store after the call and the exception raised.
modify(env, key, func) ==
    IF key \in DOMAIN env
    THEN [ env |-> EnvPut(env, key, PyStr(ApplyFunc(func, env[key]).s)), sExc |-> None ]
    ELSE [ env |-> env, sExc |-> "KeyError" ]

-----------------------------------------------------------------------------
(* The artifacts: AutoConfig.kmk and env.sh                                *)

\* The text of an artifact: the KEY=VALUE lines written from the store, whose
\* order is not kept, and the KEY=VALUE lines written after them, in order.
\* The comment header is left out.
NoText == [ store |-> { }, lines |-> << >> ]

\* EnvManager.write: a line key=value for every key that starts with none of the
\* excluded prefixes.
EnvWrite(env, asPrefixExclude) ==
    { << k, env[k].s >> :
        k \in { k2 \in DOMAIN env :
                  ~\E i \in 1..Len(asPrefixExclude) : StartsWith(k2, asPrefixExclude[i]) } }

\* oLibCur.sName.upper().replace("+", "PLUS").replace("-", "_")
VarBase(sName) == StrReplace(StrReplace(Upper(sName), "+", "PLUS"), "-", "_")

\* A variant of KmkLibLines that writes the path keys whenever a path is set.
RECURSIVE KmkLibLines_PathsAlways(_, _)
KmkLibLines_PathsAlways(asNames, libs) ==
    IF asNames = << >> THEN << >>
    ELSE LET oLibCur == libs[asNames[1]]
             sVarBase == VarBase(asNames[1])
         IN  << << "VBOX_WITH_" \o sVarBase,
                   IF oLibCur.fHave = "True" THEN "1" ELSE "0" >> >>
             \o (IF oLibCur.sLibPath # None
                 THEN << << "SDK_" \o sVarBase \o "_LIBS", oLibCur.sLibPath >> >>
                 ELSE << >>)
             \o (IF oLibCur.sIncPath # None
                 THEN << << "SDK_" \o sVarBase \o "_INCS", oLibCur.sIncPath >> >>
                 ELSE << >>)
             \o KmkLibLines_PathsAlways(Tail(asNames), libs)

\* The library loop of write_autoconfig_kmk: the enablement flag of every
\* library and, for a library that was found, its library and include paths.
RECURSIVE KmkLibLines(_, _)
KmkLibLines(asNames, libs) ==
    IF asNames = << >> THEN << >>
    ELSE LET oLibCur == libs[asNames[1]]
             sVarBase == VarBase(asNames[1])
             fHave    == oLibCur.fHave = "True"
         IN  << << "VBOX_WITH_" \o sVarBase, IF fHave THEN "1" ELSE "0" >> >>
             \o (IF fHave /\ oLibCur.sLibPath # None /\ oLibCur.sLibPath # ""
                 THEN << << "SDK_" \o sVarBase \o "_LIBS", oLibCur.sLibPath >> >>
                 ELSE << >>)
             \o (IF fHave /\ oLibCur.sIncPath # None /\ oLibCur.sIncPath # ""
                 THEN << << "SDK_" \o sVarBase \o "_INCS", oLibCur.sIncPath >> >>
                 ELSE << >>)
             \o KmkLibLines(Tail(asNames), libs)

\* The text write_autoconfig_kmk writes for the store and the whole of g_aoLibs.
AutoConfigKmkText ==
    [ store |-> EnvWrite(oEnv, << "CONFIG_" >>), lines |-> KmkLibLines(LibNames, aoLibs) ]

\* The text write_env writes.
EnvShText ==
    [ store |-> { },
      lines |-> << << "KBUILD_HOST", g_enmBuildTarget >>,
                   << "KBUILD_HOST_ARCH", g_sHostArch >>,
                   << "KBUILD_TARGET", g_enmBuildTarget >>,
                   << "KBUILD_TARGET_ARCH", g_enmBuildArch >>,
                   << "KBUILD_TARGET_CPU", g_enmBuildArch >>,
                   << "KBUILD_TYPE", "release" >> >> ]

\* What writing a file does: "ok"; "openfail", open() raises OSError; "writefail",
\* a write raises OSError after open() truncated the file and wrote the header.
WriteOutcomes == { "ok", "openfail", "writefail" }

\* The file left by a write of sFile with the text given: its name, whether the
\* text is complete, and the text it holds.
Written(files, sFile, w, text) ==
    CASE w = "ok"        -> { f \in files : f[1] # sFile }
                            \cup { << sFile, "complete", text >> }
      [] w = "writefail" -> { f \in files : f[1] # sFile }
                            \cup { << sFile, "partial", NoText >> }
      [] OTHER           -> files

-----------------------------------------------------------------------------
(* Input domains                                                           *)

\* Files a run may find, as (search directory, name below it).
FileUniverse ==
    { << "/usr/include", "zlib.h" >>,
      << "/usr/include/x86_64-linux-gnu", "zlib.h" >>,
      << "/custom/include", "zlib.h" >>,
      << "/usr/lib", "libz.so" >>,
      << "/opt/homebrew/lib", "libz.dylib" >>,
      << "/usr/include", "QtCore/qconfig.h" >>,
      << "/usr/include", "qt6/QtCore/qcoreapplication.h" >>,
      << "/usr/lib/x86_64-linux-gnu", "libQt6Core.so" >>,
      << "/custom/lib", "libQt6Core.so" >>,
      << "/vbox/src/libs", "X11/Xmu/Xmu.h" >>,
      << "/usr/include", "X11/Xmu/Xmu.h" >>,
      << "/usr/include", "c++/iostream" >> }

\* The most files of FileUniverse a file system holds.
MaxFiles == 2

\* Directories that always exist.
BaseDirs == { "/usr/include", "/usr/lib" }

FileSystems == { S \in SUBSET FileUniverse : Cardinality(S) <= MaxFiles }

\* A header of xmu, a library the runs with --only-zlib1g do not select.
OtherLibFile == << "/usr/include", "X11/Xmu/Xmu.h" >>

\* The file systems a run of main() is given: files of zlib1g, with or without
\* the header of another library beside them.
MainFileSystems ==
    { S \cup F : S \in { T \in FileSystems :
                            \A f \in T : f[2] \in { "zlib.h", "libz.so", "libz.dylib" } },
                 F \in { { }, { OtherLibFile } } }

FilesOf(S) == { OsPathJoin(f[1], f[2]) : f \in S }

DirsOf(S) == BaseDirs \cup { f[1] : f \in S }

\* Values of platform.machine(): one the multiarch table knows, one it does not.
Machines == { "x86_64", "ppc64" }

\* What the test binary of a library prints.
TestOutput == "1.2.11"

-----------------------------------------------------------------------------
(* Calls on one probe: setArgs, performCheck and compileAndExecute of the  *)
(* probe oCur, for any build target                                        *)

InitProbe ==
    /\ oCur \in LibSet \cup ToolSet
    /\ g_enmBuildTarget \in BuildTargets
    /\ g_sHostArch \in Machines
    /\ oArgs \in SUBSET { OptDisable(oCur), OptWithPath(oCur), "--debug" }
    /\ g_fDebug = ("--debug" \in oArgs)
    /\ g_cErrors = 0
    /\ \E S \in FileSystems :
          /\ oCur \in ToolSet => S = { }
          /\ fsFiles = FilesOf(S)
          /\ fsDirs = DirsOf(S)
    /\ fsExe = { }
    /\ aoLibs = [ n \in LibSet |-> LibraryCheckInit ]
    /\ aoTools = [ n \in ToolSet |-> ToolCheckInit ]
    /\ oEnv = << >>
    /\ events = { }
    /\ pc = "unit"
    /\ iCur = 0
    /\ sExc = None
    /\ tmpFiles = { }
    /\ artifacts = { }
    /\ rcExit = None
    /\ unitArgs = None
    /\ unitRet = None

UnitSetArgs ==
    /\ pc = "unit"
    /\ events = { }
    /\ IF oCur \in LibSet
       THEN /\ aoLibs' = [ aoLibs EXCEPT ![oCur] = SetArgs(@, oArgs, oCur) ]
            /\ UNCHANGED aoTools
       ELSE /\ aoTools' = [ aoTools EXCEPT ![oCur] = SetArgs(@, oArgs, oCur) ]
            /\ UNCHANGED aoLibs
    /\ events' = events \cup { << "setArgs", oCur >> }
    /\ sExc' = None
    /\ UNCHANGED << unitArgs, unitRet, g_enmBuildTarget, g_sHostArch, g_fDebug, g_cErrors, oArgs, fsFiles,
                    fsDirs, fsExe, oEnv, pc, iCur, oCur, tmpFiles, artifacts, rcExit >>

\* The events of a performCheck call that returned r.
CheckEvents(sName, r) ==
    { << "performCheck", sName >> }
    \cup (IF r.fSearched THEN { << "search", sName >> } ELSE { })

UnitLibPerformCheck ==
    /\ pc = "unit"
    /\ oCur \in LibSet
    /\ << "performCheck", oCur >> \notin events
    /\ LET r == LibPerformCheck(oCur, aoLibs[oCur])
       IN  /\ aoLibs' = [ aoLibs EXCEPT ![oCur] = r.st ]
           /\ g_cErrors' = g_cErrors + r.cErr
           /\ sExc' = r.sExc
           /\ events' = events \cup CheckEvents(oCur, r)
    /\ UNCHANGED << unitArgs, unitRet, g_enmBuildTarget, g_sHostArch, g_fDebug, oArgs, fsFiles, fsDirs,
                    fsExe, aoTools, oEnv, pc, iCur, oCur, tmpFiles, artifacts, rcExit >>

RECURSIVE VersionEvents(_, _, _, _)
\* The version queries the loop of ToolCheck.performCheck runs through checkWhich:
\* one for each binary it located, as long as the loop goes on.
VersionEvents(asCmd, sCustomPath, exe, vq) ==
    IF asCmd = << >> THEN { }
    ELSE LET r == checkWhich(asCmd[1], sCustomPath, exe, vq[asCmd[1]])
             fLocated == IF sCustomPath # None /\ sCustomPath # ""
                         THEN OsPathJoin(sCustomPath, asCmd[1]) \in exe
                         ELSE Which(EnvPath, asCmd[1], exe) # None
         IN  (IF fLocated THEN { << "version:" \o vq[asCmd[1]], asCmd[1] >> } ELSE { })
             \cup (IF r.sExc = None /\ r.sCmdPath # None
                   THEN VersionEvents(Tail(asCmd), sCustomPath, exe, vq)
                   ELSE { })

UnitToolPerformCheck ==
    /\ pc = "unit"
    /\ oCur \in ToolSet
    /\ << "performCheck", oCur >> \notin events
    /\ \E exe \in SUBSET ToolCandidates(oCur, aoTools[oCur]) :
       \E vq \in [ { g_aoTools[oCur].asCmd[i] : i \in 1..Len(g_aoTools[oCur].asCmd) }
                   -> VerOutcomes ] :
          LET r == ToolPerformCheck(oCur, aoTools[oCur], exe, vq)
          IN  /\ Unqueried(oCur, aoTools[oCur], exe, vq)
              /\ fsExe' = exe
              /\ aoTools' = [ aoTools EXCEPT ![oCur] = r.st ]
              /\ g_cErrors' = g_cErrors + r.cErr
              /\ sExc' = r.sExc
              /\ events' = events \cup CheckEvents(oCur, r)
                            \cup (IF r.fSearched /\ g_aoTools[oCur].fnCallback = None
                                  THEN VersionEvents(g_aoTools[oCur].asCmd,
                                                     aoTools[oCur].sCustomPath, exe, vq)
                                  ELSE { })
    /\ UNCHANGED << unitArgs, unitRet, g_enmBuildTarget, g_sHostArch, g_fDebug, oArgs, fsFiles, fsDirs,
                    aoLibs, oEnv, pc, iCur, oCur, tmpFiles, artifacts, rcExit >>

\* The events of a compileAndExecute call: the call and what the compiler and the
\* test binary did.
VerifyEvents(sName, comp, exec) ==
    { << "compileAndExecute", sName >>, << "compile:" \o comp, sName >> }
    \cup (IF comp = "ok" THEN { << "exec:" \o exec, sName >> } ELSE { })

\* main() calls compileAndExecute only on a library that was found.
UnitCompileAndExecute ==
    /\ pc = "unit"
    /\ oCur \in LibSet
    /\ aoLibs[oCur].fHave = "True"
    /\ << "compileAndExecute", oCur >> \notin events
    /\ \E comp \in CompileOutcomes, exec \in ExecOutcomes :
          LET r == compileAndExecute(oCur, aoLibs[oCur], tmpFiles, g_fDebug,
                                     comp, exec, TestOutput)
          IN  /\ aoLibs' = [ aoLibs EXCEPT ![oCur] = r.st ]
              /\ g_cErrors' = g_cErrors + r.cErr
              /\ sExc' = r.sExc
              /\ tmpFiles' = r.files
              /\ events' = events \cup VerifyEvents(oCur, comp, exec)
    /\ UNCHANGED << unitArgs, unitRet, g_enmBuildTarget, g_sHostArch, g_fDebug, oArgs, fsFiles, fsDirs,
                    fsExe, aoTools, oEnv, pc, iCur, oCur, artifacts, rcExit >>

\* write_autoconfig_kmk on g_aoLibs after the check of the library under test.
UnitWriteAutoConfig ==
    /\ pc = "unit"
    /\ oCur \in LibSet
    /\ << "performCheck", oCur >> \in events
    /\ sExc = None
    /\ artifacts = { }
    /\ artifacts' = Written(artifacts, "AutoConfig.kmk", "ok", AutoConfigKmkText)
    /\ UNCHANGED << unitArgs, unitRet, g_enmBuildTarget, g_sHostArch, g_fDebug, g_cErrors,
                    oArgs, fsFiles, fsDirs, fsExe, aoLibs, aoTools, oEnv, events, pc,
                    iCur, oCur, sExc, tmpFiles, rcExit >>

NextProbe ==
    \/ UnitSetArgs
    \/ UnitLibPerformCheck
    \/ UnitToolPerformCheck
    \/ UnitCompileAndExecute
    \/ UnitWriteAutoConfig

SpecProbe == InitProbe /\ [][NextProbe]_vars

-----------------------------------------------------------------------------
(* Unit specification of getLinkerArgs                                     *)

\* Library basenames a LibraryCheck may be constructed with.
LibBasenames == { "libz", "libvorbisenc", "lib", "z", "glib" }

MaxLibFiles == 2

\* The asLibFiles lists of at most MaxLibFiles basenames.
LibFileLists ==
    UNION { [ 1..n -> LibBasenames ] : n \in 0..MaxLibFiles }

InitLinkerArgs ==
    /\ unitArgs \in LibFileLists
    /\ g_enmBuildTarget \in BuildTargets
    /\ g_sHostArch \in Machines
    /\ oArgs = { }
    /\ g_fDebug = FALSE
    /\ g_cErrors = 0
    /\ fsFiles = { }
    /\ fsDirs = { }
    /\ fsExe = { }
    /\ aoLibs = [ n \in LibSet |-> LibraryCheckInit ]
    /\ aoTools = [ n \in ToolSet |-> ToolCheckInit ]
    /\ oEnv = << >>
    /\ events = { }
    /\ pc = "unit"
    /\ iCur = 0
    /\ oCur = None
    /\ sExc = None
    /\ tmpFiles = { }
    /\ artifacts = { }
    /\ rcExit = None
    /\ unitRet = None

\* One call of getLinkerArgs on a probe constructed with asLibFiles = unitArgs.
UnitGetLinkerArgs ==
    /\ pc = "unit"
    /\ unitRet' = getLinkerArgs(unitArgs)
    /\ pc' = "returned"
    /\ UNCHANGED << unitArgs, g_enmBuildTarget, g_sHostArch, g_fDebug, g_cErrors, oArgs,
                    fsFiles, fsDirs, fsExe, aoLibs, aoTools, oEnv, events, iCur, oCur,
                    sExc, tmpFiles, artifacts, rcExit >>

NextLinkerArgs == UnitGetLinkerArgs

SpecLinkerArgs == InitLinkerArgs /\ [][NextLinkerArgs]_vars

-----------------------------------------------------------------------------
(* Unit specification of EnvManager: modify and transform on a store       *)

\* The keys of the stores under test: keys the rules of envTransforms read.
EnvKeys == { "VBOX_ONLY_ADDITIONS", "VBOX_OSE", "VBOX_WITH_DOCS", "CONFIG_LIBS_DISABLE_QT" }

\* The values of the stores under test: what set() and updateFromArgs store.
EnvValues == { PyStr(""), PyStr("1"), PyTrue }

EnvStores == UNION { [ D -> EnvValues ] : D \in SUBSET EnvKeys }

\* The functions passed to modify.
ModifyFuncs == { "ident", "append" }

\* The keys the rules under test read and write.
RuleKeys == { "VBOX_OSE", "VBOX_WITH_DOCS" }

\* The rules under test.
Rules ==
    { [ kind |-> "derive", sRead |-> r, sWrite |-> w ] : r \in RuleKeys, w \in RuleKeys }
    \cup { [ kind |-> "nodict" ] }

MaxRules == 2

\* The rule lists of at most MaxRules rules.
RuleLists == UNION { [ 1..n -> Rules ] : n \in 0..MaxRules }

InitEnv ==
    /\ oEnv \in EnvStores
    /\ g_enmBuildTarget = LINUX
    /\ g_sHostArch = "x86_64"
    /\ oArgs = { }
    /\ g_fDebug = FALSE
    /\ g_cErrors = 0
    /\ fsFiles = { }
    /\ fsDirs = { }
    /\ fsExe = { }
    /\ aoLibs = [ n \in LibSet |-> LibraryCheckInit ]
    /\ aoTools = [ n \in ToolSet |-> ToolCheckInit ]
    /\ events = { }
    /\ pc = "unit"
    /\ iCur = 0
    /\ oCur = None
    /\ sExc = None
    /\ tmpFiles = { }
    /\ artifacts = { }
    /\ rcExit = None
    /\ unitArgs = None
    /\ unitRet = None

\* What a unit action of the store leaves alone.
EnvUnchanged ==
    UNCHANGED << g_enmBuildTarget, g_sHostArch, g_fDebug, g_cErrors, oArgs, fsFiles,
                 fsDirs, fsExe, aoLibs, aoTools, events, iCur, oCur, tmpFiles,
                 artifacts, rcExit, unitRet >>

\* One call oEnv.modify(key, func); unitArgs keeps the call and the store before it.
UnitModify ==
    /\ pc = "unit"
    /\ \E key \in EnvKeys, func \in ModifyFuncs :
          LET r == modify(oEnv, key, func)
          IN  /\ oEnv' = r.env
              /\ sExc' = r.sExc
              /\ unitArgs' = [ op |-> "modify", env |-> oEnv, key |-> key, func |-> func ]
    /\ pc' = "returned"
    /\ EnvUnchanged

\* One call oEnv.transform(mapTransform) with a rule list under test.
UnitTransform ==
    /\ pc = "unit"
    /\ \E mapTransform \in RuleLists :
          /\ oEnv' = transform(oEnv, mapTransform)
          /\ unitArgs' = [ op |-> "transform", env |-> oEnv, rules |-> mapTransform ]
    /\ sExc' = None
    /\ pc' = "returned"
    /\ EnvUnchanged

\* oEnv.transform(envTransforms), the call of main(), and the same call once more
\* on its result.
UnitScriptTransform ==
    /\ \/ pc = "unit"
       \/ pc = "returned" /\ unitArgs.op = "script"
    /\ oEnv' = transform(oEnv, envTransformRules)
    /\ unitArgs' = [ op |-> IF pc = "unit" THEN "script" ELSE "script again",
                     env |-> oEnv, rules |-> envTransformRules ]
    /\ sExc' = None
    /\ pc' = "returned"
    /\ EnvUnchanged

NextEnv ==
    \/ UnitModify
    \/ UnitTransform
    \/ UnitScriptTransform

SpecEnv == InitEnv /\ [][NextEnv]_vars

-----------------------------------------------------------------------------
(* main()                                                                  *)

Flag(args, sOpt) == IF sOpt \in args THEN PyTrue ELSE PyNone

RECURSIVE ProbeArgs(_, _, _)
ProbeArgs(args, asNames, sKind) ==
    IF asNames = << >> THEN << >>
    ELSE << << "config_" \o sKind \o "_disable_" \o asNames[1],
               Flag(args, OptDisable(asNames[1])) >>,
            << "config_" \o sKind \o "_path_" \o asNames[1],
               IF OptWithPath(asNames[1]) \in args THEN PyStr(CustomRoot) ELSE PyNone >>,
            << "config_" \o sKind \o "_only_" \o asNames[1],
               Flag(args, OptOnly(asNames[1])) >> >>
         \o ProbeArgs(args, Tail(asNames), sKind)

\* vars(oParser.parse_args()): every dest with its value, in the order of add_argument
Namespace(args) ==
    << << "help", IF "--help" \in args THEN PyStr("1") ELSE PyNone >>,
       << "config_verbose", IF "-v" \in args THEN [ t |-> "int", s |-> "1" ] ELSE PyInt0 >>,
       << "version", IF "--version" \in args THEN PyStr("1") ELSE PyNone >> >>
    \o ProbeArgs(args, LibNames, "libs")
    \o ProbeArgs(args, ToolNames, "tools")
    \o << << "vbox_env_sete_with_docs", Flag(args, "--disable-docs") >>,
          << "disable_python", Flag(args, "--disable-python") >>,
          << "with_hardening", Flag(args, "--with-hardening") >>,
          << "without_hardening", Flag(args, "--without-hardening") >>,
          << "config_file_autoconfig", PyStr("AutoConfig.kmk") >>,
          << "config_file_env", PyStr("env.sh") >>,
          << "config_file_log", PyStr("configure.log") >>,
          << "vbox_only_additions", Flag(args, "--only-additions") >>,
          << "vbox_env_set1_only_docs", Flag(args, "--only-docs") >>,
          << "vbox_env_set1_ose", Flag(args, "--ose") >>,
          << "config_debug", IF "--debug" \in args THEN PyTrue ELSE PyFalse >> >>

RECURSIVE SeqSelectOnly(_, _)
SeqSelectOnly(asNames, args) ==
    IF asNames = << >> THEN << >>
    ELSE (IF OptOnly(asNames[1]) \in args THEN << asNames[1] >> ELSE << >>)
         \o SeqSelectOnly(Tail(asNames), args)

RECURSIVE SeqSelectTarget(_, _)
SeqSelectTarget(asNames, cat) ==
    IF asNames = << >> THEN << >>
    ELSE (IF g_enmBuildTarget \in cat[asNames[1]].aeTargets \/ ANY \in cat[asNames[1]].aeTargets
          THEN << asNames[1] >> ELSE << >>)
         \o SeqSelectTarget(Tail(asNames), cat)

\* A variant of aoLibsToCheck without the --only-<lib> filter: every library
\* of the catalog that applies to the build target.
aoLibsToCheck_IgnoreOnly ==
    SeqSelectTarget(LibNames, g_aoLibs)

\* aoLibsToCheck: the --only-<lib> filter, then the build target filter
aoLibsToCheck ==
    LET aoOnlyLibs == SeqSelectOnly(LibNames, oArgs)
    IN  SeqSelectTarget(IF aoOnlyLibs # << >> THEN aoOnlyLibs ELSE LibNames, g_aoLibs)

\* aoToolsToCheck
aoToolsToCheck ==
    LET aoOnlyTools == SeqSelectOnly(ToolNames, oArgs)
    IN  SeqSelectTarget(IF aoOnlyTools # << >> THEN aoOnlyTools ELSE ToolNames, g_aoTools)

ExtPackXml == "src/VBox/ExtPacks/Puel/ExtPack.xml"

\* g_fOSE after the OSE handling: None, True or False
OseValue ==
    IF "--ose" \in oArgs THEN PyTrue
    ELSE IF PathExists(ExtPackXml) THEN PyFalse
    ELSE PyNone

\* aOsTools.get(g_enmBuildTarget, [])
aOsToolsToCheck ==
    CASE g_enmBuildTarget = LINUX   -> << "gcc", "make", "pkg-config" >>
      [] g_enmBuildTarget = DARWIN  -> << "clang", "make", "brew" >>
      [] g_enmBuildTarget = WINDOWS -> << "cl", "gcc", "nmake", "cmake", "msbuild" >>
      [] g_enmBuildTarget = SOLARIS -> << "cc", "gmake", "pkg-config" >>
      [] OTHER -> << >>

\* The options of a run that reach the store or its rules.
StoreOptions ==
    { "--disable-docs", "--only-additions", "--only-docs", "--ose", "--disable-python",
      "--with-hardening", "--debug", "-v",
      OptDisable("qt6"), OptWithPath("qt6"), OptOnly("qt6") }

\* The most options a command line of the store specification holds.
MaxStoreArgs == 2

\* The store of main() from its construction to the end of transform: the state
\* before oEnv.updateFromArgs(oArgs), for any command line, with or without the
\* extension pack source in the tree.
InitStore ==
    /\ oArgs \in { A \in SUBSET StoreOptions : Cardinality(A) <= MaxStoreArgs }
    /\ fsFiles \in { { }, { ExtPackXml } }
    /\ g_enmBuildTarget = LINUX
    /\ g_sHostArch = "x86_64"
    /\ g_fDebug = ("--debug" \in oArgs)
    /\ g_cErrors = 0
    /\ fsDirs = BaseDirs
    /\ fsExe = { }
    /\ aoLibs = [ n \in LibSet |-> LibraryCheckInit ]
    /\ aoTools = [ n \in ToolSet |-> ToolCheckInit ]
    /\ oEnv = << >>
    /\ events = { }
    /\ pc = "store"
    /\ iCur = 0
    /\ oCur = None
    /\ sExc = None
    /\ tmpFiles = { }
    /\ artifacts = { }
    /\ rcExit = None
    /\ unitArgs = None
    /\ unitRet = None

\* What a step of the store leaves alone.
StoreUnchanged ==
    UNCHANGED << g_enmBuildTarget, g_sHostArch, g_fDebug, g_cErrors, oArgs, fsFiles,
                 fsDirs, fsExe, aoLibs, aoTools, events, iCur, oCur, sExc, tmpFiles,
                 artifacts, rcExit, unitArgs, unitRet >>

\* oEnv.updateFromArgs(oArgs)
StoreUpdateFromArgs ==
    /\ pc = "store"
    /\ oEnv' = updateFromArgs(oEnv, Namespace(oArgs))
    /\ pc' = "updated"
    /\ StoreUnchanged

\* oEnv.set('VBOX_OSE', g_fOSE)
StoreSetOse ==
    /\ pc = "updated"
    /\ oEnv' = EnvSet(oEnv, "VBOX_OSE", OseValue)
    /\ pc' = "set"
    /\ StoreUnchanged

\* oEnv.transform(envTransforms)
StoreTransform ==
    /\ pc = "set"
    /\ oEnv' = transform(oEnv, envTransformRules)
    /\ pc' = "transformed"
    /\ StoreUnchanged

NextStore ==
    \/ StoreUpdateFromArgs
    \/ StoreSetOse
    \/ StoreTransform

SpecStore == InitStore /\ [][NextStore]_vars

\* An uncaught exception ends the process with exit code 1.
Crash(sRaised) ==
    /\ pc' = "done"
    /\ sExc' = sRaised
    /\ rcExit' = 1

\* From parse_args to oEnv.transform(envTransforms).  --help reaches
\* show_syntax_help, which reads the attribute name no LibraryCheck has.
MainParse ==
    /\ pc = "start"
    /\ g_fDebug' = ("--debug" \in oArgs)
    /\ IF "--help" \in oArgs
       THEN /\ Crash("AttributeError")
            /\ UNCHANGED << unitArgs, unitRet, oEnv, iCur >>
       ELSE IF "--version" \in oArgs
       THEN /\ pc' = "done"
            /\ rcExit' = 0
            /\ UNCHANGED << unitArgs, unitRet, oEnv, iCur, sExc >>
       ELSE /\ oEnv' = transform(EnvSet(updateFromArgs(oEnv, Namespace(oArgs)),
                                        "VBOX_OSE", OseValue),
                                  envTransformRules)
            /\ pc' = "ostools"
            /\ iCur' = 1
            /\ UNCHANGED << unitArgs, unitRet, sExc, rcExit >>
    /\ UNCHANGED << unitArgs, unitRet, g_enmBuildTarget, g_sHostArch, g_cErrors, oArgs, fsFiles, fsDirs,
                    fsExe, aoLibs, aoTools, events, oCur, tmpFiles, artifacts >>

\* One iteration of the OS tool loop: checkWhich(sBinary, sBinary)
MainOsTool ==
    /\ pc = "ostools"
    /\ iCur <= Len(aOsToolsToCheck)
    /\ LET sBinary == aOsToolsToCheck[iCur]
       IN  \E fThere \in BOOLEAN, vq \in VerOutcomes :
              LET exe == IF fThere THEN { OsPathJoin(EnvPath[1], sBinary) } ELSE { }
                  r   == checkWhich(sBinary, None, fsExe \cup exe, vq)
              IN  /\ fsExe' = fsExe \cup exe
                  /\ g_cErrors' = g_cErrors + r.cErr
                  /\ events' = events \cup { << "checkWhich", sBinary >> }
                  /\ IF r.sExc # None
                     THEN Crash(r.sExc) /\ UNCHANGED iCur
                     ELSE /\ iCur' = iCur + 1
                          /\ UNCHANGED << unitArgs, unitRet, pc, sExc, rcExit >>
    /\ UNCHANGED << unitArgs, unitRet, g_enmBuildTarget, g_sHostArch, g_fDebug, oArgs, fsFiles, fsDirs,
                    aoLibs, aoTools, oEnv, oCur, tmpFiles, artifacts >>

\* A variant of the end of the OS tool loop that enters the tool checks whatever
\* the error counter holds.
MainToolsIf_NoGate ==
    /\ pc = "ostools"
    /\ iCur > Len(aOsToolsToCheck)
    /\ pc' = IF aoToolsToCheck # << >> THEN "tools" ELSE "libs_if"
    /\ iCur' = 1
    /\ UNCHANGED << unitArgs, unitRet, g_enmBuildTarget, g_sHostArch, g_fDebug, g_cErrors, oArgs, fsFiles,
                    fsDirs, fsExe, aoLibs, aoTools, oEnv, events, oCur, sExc,
                    tmpFiles, artifacts, rcExit >>

\* The end of the OS tool loop and "if g_cErrors == 0:" before the tool checks
MainToolsIf ==
    /\ pc = "ostools"
    /\ iCur > Len(aOsToolsToCheck)
    /\ pc' = IF g_cErrors = 0 /\ aoToolsToCheck # << >> THEN "tools" ELSE "libs_if"
    /\ iCur' = 1
    /\ UNCHANGED << unitArgs, unitRet, g_enmBuildTarget, g_sHostArch, g_fDebug, g_cErrors, oArgs, fsFiles,
                    fsDirs, fsExe, aoLibs, aoTools, oEnv, events, oCur, sExc,
                    tmpFiles, artifacts, rcExit >>

\* The executables a tool check of the run brings to light are those it looks
\* for: none when the check does not search, and none for a command after the
\* one that ended the loop over asCmd.
OnlyLookedAt(sName, st, exe, vq) ==
    LET asCmd == g_aoTools[sName].asCmd
        Of(c) == { f \in exe : EndsWith(f, "/" \o c) }
        Ends(c) == Of(c) = { } \/ vq[c] \in { "timeout", "empty" }
    IN  /\ (\/ st.fDisabled
             \/ /\ g_enmBuildTarget \notin g_aoTools[sName].aeTargets
                /\ ANY \notin g_aoTools[sName].aeTargets) => exe = { }
        /\ \A j \in 2..Len(asCmd) :
              (\E i \in 1..(j - 1) : Ends(asCmd[i])) => Of(asCmd[j]) = { }

\* One iteration of the tool loop: setArgs and performCheck, the result ignored
MainToolCheck ==
    /\ pc = "tools"
    /\ LET sName == aoToolsToCheck[iCur]
           st    == SetArgs(aoTools[sName], oArgs, sName)
       IN  \E exe \in SUBSET ToolCandidates(sName, st) :
           \E vq \in [ { g_aoTools[sName].asCmd[i] : i \in 1..Len(g_aoTools[sName].asCmd) }
                       -> VerOutcomes ] :
              LET r == ToolPerformCheck(sName, st, fsExe \cup exe, vq)
              IN  /\ Unqueried(sName, st, fsExe \cup exe, vq)
                  /\ OnlyLookedAt(sName, st, exe, vq)
                  /\ fsExe' = fsExe \cup exe
                  /\ aoTools' = [ aoTools EXCEPT ![sName] = r.st ]
                  /\ g_cErrors' = g_cErrors + r.cErr
                  /\ events' = events \cup { << "setArgs", sName >> } \cup CheckEvents(sName, r)
                  /\ IF r.sExc # None
                     THEN Crash(r.sExc) /\ UNCHANGED iCur
                     ELSE /\ pc' = IF iCur < Len(aoToolsToCheck) THEN "tools" ELSE "libs_if"
                          /\ iCur' = IF iCur < Len(aoToolsToCheck) THEN iCur + 1 ELSE 1
                          /\ UNCHANGED << unitArgs, unitRet, sExc, rcExit >>
    /\ UNCHANGED << unitArgs, unitRet, g_enmBuildTarget, g_sHostArch, g_fDebug, oArgs, fsFiles, fsDirs,
                    aoLibs, oEnv, oCur, tmpFiles, artifacts >>

\* "if g_cErrors == 0:" before the library checks.  The library loop is the
\* first code of main() that looks at header and library files, so the files
\* on disk are drawn here.
MainLibsIf ==
    /\ pc = "libs_if"
    /\ IF g_cErrors = 0 /\ aoLibsToCheck # << >>
       THEN /\ pc' = "libs"
            /\ \E S \in MainFileSystems :
                  /\ fsFiles' = FilesOf(S)
                  /\ fsDirs' = DirsOf(S)
       ELSE /\ pc' = "summary"
            /\ UNCHANGED << unitArgs, unitRet, fsFiles, fsDirs >>
    /\ UNCHANGED << unitArgs, unitRet, g_enmBuildTarget, g_sHostArch, g_fDebug, g_cErrors, oArgs,
                    fsExe, aoLibs, aoTools, oEnv, events, iCur, oCur, sExc,
                    tmpFiles, artifacts, rcExit >>

\* One iteration of the library loop: setArgs, performCheck and, for a library
\* that was found, compileAndExecute
MainLibCheck ==
    /\ pc = "libs"
    /\ LET sName == aoLibsToCheck[iCur]
           r     == LibPerformCheck(sName, SetArgs(aoLibs[sName], oArgs, sName))
           fLast == iCur >= Len(aoLibsToCheck)
       IN  IF r.sExc # None
           THEN /\ aoLibs' = [ aoLibs EXCEPT ![sName] = r.st ]
                /\ g_cErrors' = g_cErrors + r.cErr
                /\ events' = events \cup { << "setArgs", sName >> } \cup CheckEvents(sName, r)
                /\ Crash(r.sExc)
                /\ UNCHANGED << unitArgs, unitRet, iCur, tmpFiles >>
           ELSE IF r.st.fHave # "True"
           THEN /\ aoLibs' = [ aoLibs EXCEPT ![sName] = r.st ]
                /\ g_cErrors' = g_cErrors + r.cErr
                /\ events' = events \cup { << "setArgs", sName >> } \cup CheckEvents(sName, r)
                /\ pc' = IF fLast THEN "summary" ELSE "libs"
                /\ iCur' = IF fLast THEN 1 ELSE iCur + 1
                /\ UNCHANGED << unitArgs, unitRet, sExc, rcExit, tmpFiles >>
           ELSE \E comp \in CompileOutcomes, exec \in ExecOutcomes :
                   LET v == compileAndExecute(sName, r.st, tmpFiles, g_fDebug,
                                              comp, exec, TestOutput)
                   IN  /\ aoLibs' = [ aoLibs EXCEPT ![sName] = v.st ]
                       /\ g_cErrors' = g_cErrors + r.cErr + v.cErr
                       /\ tmpFiles' = v.files
                       /\ events' = events \cup { << "setArgs", sName >> }
                                        \cup CheckEvents(sName, r)
                                        \cup VerifyEvents(sName, comp, exec)
                       /\ IF v.sExc # None
                          THEN Crash(v.sExc) /\ UNCHANGED iCur
                          ELSE /\ pc' = IF fLast THEN "summary" ELSE "libs"
                               /\ iCur' = IF fLast THEN 1 ELSE iCur + 1
                               /\ UNCHANGED << unitArgs, unitRet, sExc, rcExit >>
    /\ UNCHANGED << unitArgs, unitRet, g_enmBuildTarget, g_sHostArch, g_fDebug, oArgs, fsFiles, fsDirs,
                    fsExe, aoTools, oEnv, oCur, artifacts >>

\* ToolCheck.getStatusString raises when fHave is set and sCmdPath is None:
\* os.path.basename(None)
ToolStatusRaises(st) == ~st.fDisabled /\ st.fHave = "True" /\ st.sCmdPath = None

\* The summary tables, printed when no error was counted
MainSummary ==
    /\ pc = "summary"
    /\ IF /\ g_cErrors = 0
          /\ \E i \in 1..Len(aoToolsToCheck) : ToolStatusRaises(aoTools[aoToolsToCheck[i]])
       THEN Crash("TypeError")
       ELSE /\ pc' = "write"
            /\ UNCHANGED << unitArgs, unitRet, sExc, rcExit >>
    /\ UNCHANGED << unitArgs, unitRet, g_enmBuildTarget, g_sHostArch, g_fDebug, g_cErrors, oArgs, fsFiles,
                    fsDirs, fsExe, aoLibs, aoTools, oEnv, events, iCur, oCur,
                    tmpFiles, artifacts >>

\* A variant of the end of main() that writes both files whatever the error
\* counter holds.
MainWrite_Always ==
    /\ pc = "write"
    /\ artifacts' = Written(Written(artifacts, "AutoConfig.kmk", "ok", AutoConfigKmkText),
                            "env.sh", "ok", EnvShText)
    /\ rcExit' = IF g_cErrors = 0 THEN 0 ELSE 1
    /\ pc' = "done"
    /\ UNCHANGED << unitArgs, unitRet, g_enmBuildTarget, g_sHostArch, g_fDebug, g_cErrors, oArgs, fsFiles,
                    fsDirs, fsExe, aoLibs, aoTools, oEnv, events, iCur, oCur, sExc,
                    tmpFiles >>

\* write_autoconfig_kmk and write_env when no error was counted, then the return
\* value of main()
MainWrite ==
    /\ pc = "write"
    /\ IF g_cErrors = 0
       THEN \E w1 \in WriteOutcomes, w2 \in WriteOutcomes :
               LET afterKmk == Written(artifacts, "AutoConfig.kmk", w1, AutoConfigKmkText)
                   cErrKmk  == IF w1 = "ok" THEN 0 ELSE 1
                   afterEnv == IF w1 = "ok" THEN Written(afterKmk, "env.sh", w2, EnvShText)
                               ELSE afterKmk
                   cErrEnv  == IF w1 = "ok" /\ w2 # "ok" THEN 1 ELSE 0
               IN  /\ artifacts' = afterEnv
                   /\ g_cErrors' = g_cErrors + cErrKmk + cErrEnv
       ELSE UNCHANGED << unitArgs, unitRet, artifacts, g_cErrors >>
    /\ rcExit' = IF g_cErrors' = 0 THEN 0 ELSE 1
    /\ pc' = "done"
    /\ UNCHANGED << unitArgs, unitRet, g_enmBuildTarget, g_sHostArch, g_fDebug, oArgs, fsFiles, fsDirs,
                    fsExe, aoLibs, aoTools, oEnv, events, iCur, oCur, sExc, tmpFiles >>

\* Values of platform.system().lower()
HostSystems == { "linux", "darwin", "freebsd", "windows" }

\* The most options a command line holds.
MaxArgs == 1

\* The probes the command lines of a run name.
MainNames == { "zlib1g", "gsoap" }

\* The options of a run.  --help and --version are store options, so each
\* stands for the option given with a nonempty value.
MainOptions ==
    { OptDisable(n) : n \in MainNames }
    \cup { OptOnly(n) : n \in MainNames }
    \cup { OptWithPath(n) : n \in MainNames \cap ToolSet }
    \cup { "--help", "--version", "--debug" }

CmdLines == { A \in SUBSET MainOptions : Cardinality(A) <= MaxArgs }

InitMain ==
    /\ \E h \in HostSystems : g_enmBuildTarget = HostTargetOf(h)
    /\ g_sHostArch \in Machines
    /\ oArgs \in CmdLines
    /\ g_fDebug = FALSE
    /\ g_cErrors = 0
    /\ fsFiles = { }
    /\ fsDirs = BaseDirs
    /\ fsExe = { }
    /\ aoLibs = [ n \in LibSet |-> LibraryCheckInit ]
    /\ aoTools = [ n \in ToolSet |-> ToolCheckInit ]
    /\ oEnv = << >>
    /\ events = { }
    /\ pc = "start"
    /\ iCur = 0
    /\ oCur = None
    /\ sExc = None
    /\ tmpFiles = { }
    /\ artifacts = { }
    /\ rcExit = None
    /\ unitArgs = None
    /\ unitRet = None

Next ==
    \/ MainParse
    \/ MainOsTool
    \/ MainToolsIf
    \/ MainToolCheck
    \/ MainLibsIf
    \/ MainLibCheck
    \/ MainSummary
    \/ MainWrite

Spec == InitMain /\ [][Next]_vars

-----------------------------------------------------------------------------
(* Properties of one probe, stated over SpecProbe                          *)

Probes == LibSet \cup ToolSet

ProbeOf(n) == IF n \in LibSet THEN aoLibs[n] ELSE aoTools[n]

\* The operation sOp was called on probe n.
Called(sOp, n) == << sOp, n >> \in events

\* The build target is outside the applicability set of n, Any is not in the
\* set either, or the target is in the exclusion set of n.
Inapplicable(n) ==
    IF n \in LibSet
    THEN \/ g_enmBuildTarget \in g_aoLibs[n].aeTargetsExcluded
         \/ /\ g_enmBuildTarget \notin g_aoLibs[n].aeTargets
            /\ ANY \notin g_aoLibs[n].aeTargets
    ELSE /\ g_enmBuildTarget \notin g_aoTools[n].aeTargets
         /\ ANY \notin g_aoTools[n].aeTargets

\* A header of library n is a file below one of its include search paths.
IncResolved(n) ==
    LET asHdr == g_aoLibs[n].asIncFiles \o g_aoLibs[n].asAltIncFiles
        asDir == getIncSearchPaths(n, aoLibs[n])
    IN  \/ asHdr = << >>
        \/ \E i \in 1..Len(asDir), j \in 1..Len(asHdr) :
              OsPathJoin(asDir[i], asHdr[j]) \in fsFiles

\* A file below one of the library search paths of n matches the pattern of
\* checkLib with one of the extensions.
LibResolved(n) ==
    LET asDir == getLibSearchPaths(n, aoLibs[n])
    IN  \/ g_aoLibs[n].asLibFiles = << >>
        \/ \E i \in 1..Len(asDir), j \in 1..Len(LibExts) :
              Glob(asDir[i], PyListStr(g_aoLibs[n].asLibFiles), LibExts[j]) # { }

\* The binary sCmd of tool n is an executable file where the lookup looks for it.
BinaryResolved(n, sCmd) ==
    IF aoTools[n].sCustomPath # None
    THEN OsPathJoin(aoTools[n].sCustomPath, sCmd) \in fsExe
    ELSE \E i \in 1..Len(EnvPath) : OsPathJoin(EnvPath[i], sCmd) \in fsExe

\* C1: a probe whose applicability set holds neither the build target nor Any,
\* or whose exclusion set holds the build target, is left NotChecked by
\* performCheck and no search step is performed for it, whether it is disabled
\* or not.
C1_InapplicableNotChecked ==
    \A n \in Probes :
        Inapplicable(n) /\ Called("performCheck", n) =>
            /\ ProbeOf(n).fHave = None
            /\ ~Called("search", n)

\* An excluded library that is not disabled and whose header is on disk had
\* performCheck called.
C1_Witness ==
    /\ oCur = "xmu"
    /\ g_enmBuildTarget = DARWIN
    /\ Called("performCheck", "xmu")
    /\ ~aoLibs["xmu"].fDisabled
    /\ "/usr/include/X11/Xmu/Xmu.h" \in fsFiles

\* C2: a disabled probe ends performCheck NotChecked, whatever is on disk, and
\* no error is counted for it.
C2_DisabledNotChecked ==
    \A n \in Probes :
        ProbeOf(n).fDisabled /\ Called("performCheck", n) =>
            /\ ProbeOf(n).fHave = None
            /\ g_cErrors = 0

\* A disabled tool all of whose binaries exist had performCheck called.
C2_Witness ==
    /\ oCur = "gsoap"
    /\ aoTools["gsoap"].fDisabled
    /\ Called("performCheck", "gsoap")
    /\ BinaryResolved("gsoap", "soapcpp2")
    /\ BinaryResolved("gsoap", "wsdl2h")

\* C3: after performCheck returned on an enabled, applicable library, the status
\* is Found exactly when a header and a library file resolved; otherwise it is
\* NotFound and an error was counted.
C3_LibFoundIffBoth ==
    \A n \in LibSet :
        /\ Called("performCheck", n)
        /\ ~aoLibs[n].fDisabled
        /\ ~Inapplicable(n)
        /\ sExc # "TypeError"
        => /\ aoLibs[n].fHave = "True" <=> (IncResolved(n) /\ LibResolved(n))
           /\ aoLibs[n].fHave # "True" => (aoLibs[n].fHave = "False" /\ g_cErrors >= 1)

\* An enabled, applicable library whose header is on disk and whose library file
\* is not had performCheck called.
C3_Witness ==
    /\ oCur = "zlib1g"
    /\ Called("performCheck", "zlib1g")
    /\ ~aoLibs["zlib1g"].fDisabled
    /\ sExc = None
    /\ IncResolved("zlib1g")
    /\ ~LibResolved("zlib1g")

\* C4: after performCheck returned on an enabled, applicable tool without a
\* callback, the status is Found exactly when one of its binaries resolved, and
\* NotFound when none did.
C4_ToolFoundIffAny ==
    \A n \in ToolSet :
        /\ Called("performCheck", n)
        /\ g_aoTools[n].fnCallback = None
        /\ ~aoTools[n].fDisabled
        /\ ~Inapplicable(n)
        /\ sExc = None
        => LET fAny == \E i \in 1..Len(g_aoTools[n].asCmd) :
                          BinaryResolved(n, g_aoTools[n].asCmd[i])
           IN  /\ aoTools[n].fHave = "True" <=> fAny
               /\ ~fAny => aoTools[n].fHave = "False"

\* C5: the paths and the version of a probe are set only when it is Found.
C5_PathsOnlyWhenFound ==
    /\ \A n \in LibSet :
          aoLibs[n].fHave # "True" =>
              /\ aoLibs[n].sIncPath = None
              /\ aoLibs[n].sLibPath = None
              /\ aoLibs[n].sVer = None
    /\ \A n \in ToolSet :
          aoTools[n].fHave # "True" =>
              /\ aoTools[n].sCmdPath = None
              /\ aoTools[n].sVer = None

\* C9: compileAndExecute leaves the status Found; the version is set exactly
\* when the test binary ran and exited with 0; a failed compilation, a nonzero
\* exit and a timeout leave the version unset and count an error.
C9_VerifierKeepsStatus ==
    \A n \in LibSet :
        Called("compileAndExecute", n) =>
            /\ aoLibs[n].fHave = "True"
            /\ aoLibs[n].sVer # None <=> Called("exec:ok", n)
            /\ \/ Called("compile:fail", n)
               \/ Called("compile:timeout", n)
               \/ Called("exec:fail", n)
               \/ Called("exec:timeout", n)
               => (aoLibs[n].sVer = None /\ g_cErrors >= 1)

\* The test binary of a found library was built and exited nonzero.
C9_Witness ==
    \E n \in LibSet :
        /\ Called("exec:fail", n)
        /\ aoLibs[n].fHave = "True"
        /\ g_cErrors = 2

\* C10, as stated: after compileAndExecute no temporary directory, test source
\* or binary is left, for every value of the debug flag.
C10_NothingLeft ==
    (\E n \in LibSet : Called("compileAndExecute", n)) => tmpFiles = { }

\* C10, amended: after compileAndExecute the temporary directory and everything
\* below it is gone on every path, and without the debug flag no test source
\* and no binary is left at all.
C10_TempDirReleased ==
    (\E n \in LibSet : Called("compileAndExecute", n)) =>
        /\ \A f \in tmpFiles : f # TempDirName /\ ~StartsWith(f, TempDirName \o "/")
        /\ ~g_fDebug => tmpFiles = { }

\* Without the debug flag, compileAndExecute raised because the test binary
\* could not be started.
C10_Witness ==
    \E n \in LibSet :
        /\ ~g_fDebug
        /\ Called("exec:oserror", n)
        /\ sExc = "OSError"

-----------------------------------------------------------------------------
(* Properties of a run of main(), stated over Spec                         *)

\* The members of a sequence.
Range(as) == { as[i] : i \in 1..Len(as) }

\* Probe n is one the run is to check: it passed the --only and build target
\* filters, it is not disabled on the command line and the target is not excluded.
Selected(n) ==
    /\ n \in Range(aoLibsToCheck) \cup Range(aoToolsToCheck)
    /\ ~ArgDisable(oArgs, n)
    /\ ~Inapplicable(n)

\* Probe n was searched for and did not end Found.
Failed(n) == Called("search", n) /\ ProbeOf(n).fHave # "True"

\* The OS tool sBinary was looked for and is not an executable file on PATH.
OsToolMissing(sBinary) ==
    /\ Called("checkWhich", sBinary)
    /\ \A i \in 1..Len(EnvPath) : OsPathJoin(EnvPath[i], sBinary) \notin fsExe

\* C6: when a probe of a run fails, every probe selected for the run has still
\* been checked when the run ends, the libraries after a failed tool included.
C6_FailureIsolated ==
    /\ pc = "done"
    /\ sExc = None
    /\ \E m \in Probes : Failed(m)
    => \A n \in Probes : Selected(n) => Called("performCheck", n)

\* C7: once a required OS tool of the build target is missing, no tool and no
\* library is checked in the run and every probe stays NotChecked.
C7_OsToolMissingBlocks ==
    (\E i \in 1..Len(aOsToolsToCheck) : OsToolMissing(aOsToolsToCheck[i])) =>
        \A n \in Probes :
            /\ ~Called("performCheck", n)
            /\ ProbeOf(n).fHave = None

\* A run on Linux ended after make was missing while gcc was present.
C7_Witness ==
    /\ pc = "done"
    /\ g_enmBuildTarget = LINUX
    /\ OsToolMissing("make")
    /\ ~OsToolMissing("gcc")
    /\ Called("checkWhich", "pkg-config")
    /\ rcExit = 1

\* C8: with a nonzero error counter after the probing phases nothing is written
\* and the exit code is 1; the exit code is 0 only when the counter is zero at
\* the end of the run.
C8_ErrorsSuppressArtifacts ==
    /\ [][pc = "write" /\ g_cErrors # 0 => artifacts' = { } /\ rcExit' = 1]_vars
    /\ [](pc # "done" => artifacts = { })
    /\ [](pc = "done" /\ rcExit = 0 => g_cErrors = 0)

\* A run ended with exit code 1 after a library probe failed.
C8_Witness ==
    /\ pc = "done"
    /\ sExc = None
    /\ rcExit = 1
    /\ artifacts = { }
    /\ \E n \in LibSet : Failed(n)

\* A run that probed a library ended with exit code 0 and both files written.
C8_SuccessReached ==
    /\ pc = "done"
    /\ rcExit = 0
    /\ \E n \in LibSet : Called("compileAndExecute", n)
    /\ { << f[1], f[2] >> : f \in artifacts }
         = { << "AutoConfig.kmk", "complete" >>, << "env.sh", "complete" >> }

-----------------------------------------------------------------------------
(* Properties of checkWhich, stated over the tool probes of SpecProbe      *)

\* The tools whose check looks for the binaries of asCmd with checkWhich.
CmdTools == { n \in ToolSet : g_aoTools[n].asCmd # << >> }

\* The custom path checkWhich is given for tool n, or None.
CustomDirOf(n) ==
    IF aoTools[n].sCustomPath = None THEN None
    ELSE IF g_aoTools[n].fnCallback = "checkCallback_OpenWatcom"
    THEN OsPathJoin(aoTools[n].sCustomPath, OpenWatcomBinSubdir)
    ELSE aoTools[n].sCustomPath

\* The check of tool n searched and returned.
ToolSearched(n) == Called("search", n) /\ sExc = None

\* C11: with a custom path, a binary that is no executable file below it makes
\* checkWhich return (None, None) and count an error; PATH is not consulted,
\* even when the binary is on PATH.
C11_CustomRootNoFallback ==
    \A n \in CmdTools :
        LET sFirst == g_aoTools[n].asCmd[1]
        IN  /\ ToolSearched(n)
            /\ OpenWatcomBinSubdir # None \/ g_aoTools[n].fnCallback = None
            /\ CustomDirOf(n) # None
            /\ OsPathJoin(CustomDirOf(n), sFirst) \notin fsExe
            => /\ aoTools[n].sCmdPath = None
               /\ aoTools[n].sVer = None
               /\ aoTools[n].fHave # "True"
               /\ g_cErrors = 1

\* gsoap was checked with a custom path while soapcpp2 is on PATH only.
C11_Witness ==
    /\ oCur = "gsoap"
    /\ ToolSearched("gsoap")
    /\ aoTools["gsoap"].sCustomPath = CustomRoot
    /\ OsPathJoin(CustomRoot, "soapcpp2") \notin fsExe
    /\ OsPathJoin(EnvPath[1], "soapcpp2") \in fsExe

\* The last binary of tool n's command list.
LastCmd(n) == g_aoTools[n].asCmd[Len(g_aoTools[n].asCmd)]

\* No version query of tool n's last binary succeeded: every switch gave a
\* nonzero exit code, or a query ran into its timeout.
NoVersionObtained(n) ==
    \/ << "version:nonzero", LastCmd(n) >> \in events
    \/ << "version:timeout", LastCmd(n) >> \in events

\* C12: a tool whose binary resolves but whose version queries all fail (nonzero
\* exit codes, or a timeout) is Found with its path, the version "<unknown>",
\* and no error is counted.
C12_VersionFailureHarmless ==
    \A n \in CmdTools :
        g_aoTools[n].fnCallback = None /\ ToolSearched(n) /\ NoVersionObtained(n)
            => /\ aoTools[n].fHave = "True"
               /\ aoTools[n].sCmdPath # None
               /\ aoTools[n].sVer = "<unknown>"
               /\ g_cErrors = 0

\* The part of C12 the code has: nonzero exit codes of every switch.
C12_NonzeroHarmless ==
    \A n \in CmdTools :
        /\ g_aoTools[n].fnCallback = None
        /\ ToolSearched(n)
        /\ << "version:nonzero", LastCmd(n) >> \in events
        => /\ aoTools[n].fHave = "True"
           /\ aoTools[n].sCmdPath # None
           /\ aoTools[n].sVer = "<unknown>"
           /\ g_cErrors = 0

-----------------------------------------------------------------------------
(* Properties of getLinkerArgs, over SpecLinkerArgs                        *)

\* C13: getLinkerArgs returns, on a non-Windows target, one flag per basename in
\* list order, "-l" and the basename without a leading "lib", or "-l:" and the
\* unchanged basename; on Windows the empty list.
C13_LinkerArgs ==
    pc = "returned" =>
        IF g_enmBuildTarget = WINDOWS
        THEN unitRet = << >>
        ELSE /\ Len(unitRet) = Len(unitArgs)
             /\ \A i \in 1..Len(unitArgs) :
                   \/ /\ StartsWith(unitArgs[i], "lib")
                      /\ StartsWith(unitRet[i], "-l")
                      /\ "lib" \o DropPrefix(unitRet[i], 2) = unitArgs[i]
                   \/ /\ ~StartsWith(unitArgs[i], "lib")
                      /\ unitRet[i] = "-l:" \o unitArgs[i]

\* A list with a "lib" basename followed by another one was turned into flags.
C13_Witness ==
    /\ pc = "returned"
    /\ g_enmBuildTarget = LINUX
    /\ unitArgs = << "libz", "z" >>
    /\ unitRet = << "-lz", "-l:z" >>

-----------------------------------------------------------------------------
(* Properties of the search for headers and libraries, over SpecProbe      *)

\* The check of library n searched and returned.
LibSearched(n) == Called("search", n) /\ sExc = None

\* The primary and alternate header names of library n.
HeaderNames(n) == Range(g_aoLibs[n].asIncFiles \o g_aoLibs[n].asAltIncFiles)

\* The header names of n that are a file below some include search path of n.
HeadersPresent(n) ==
    { h \in HeaderNames(n) :
        \E d \in Range(getIncSearchPaths(n, aoLibs[n])) : OsPathJoin(d, h) \in fsFiles }

\* C14: when exactly one of the header names of a library, primary or alternate,
\* is a file below one of its include search paths, checkInc succeeds and the
\* include root is a search path that holds that header.
C14_OneHeaderSuffices ==
    \A n \in LibSet :
        LibSearched(n) /\ Cardinality(HeadersPresent(n)) = 1
            => /\ aoLibs[n].sIncPath \in Range(getIncSearchPaths(n, aoLibs[n]))
               /\ \A h \in HeadersPresent(n) :
                     OsPathJoin(aoLibs[n].sIncPath, h) \in fsFiles
               /\ aoLibs[n].fHave = "True" \/ ~LibResolved(n)

\* qt6 was searched for while only one of its alternate headers exists.
C14_Witness ==
    /\ oCur = "qt6"
    /\ LibSearched("qt6")
    /\ HeadersPresent("qt6") = { "qt6/QtCore/qcoreapplication.h" }
    /\ aoLibs["qt6"].sIncPath = "/usr/include"

-----------------------------------------------------------------------------
(* Properties of the environment store, over SpecEnv                       *)

\* The call op of the store returned.
EnvReturned(op) == pc = "returned" /\ unitArgs.op = op

\* C15: for a list of two rules, the second rule is evaluated on the store that
\* holds what the first rule returned, and the store after the call is the
\* store before it with the result of the first and then of the second rule
\* merged, each once.
C15_TransformSequential ==
    EnvReturned("transform") /\ Len(unitArgs.rules) = 2 =>
        LET resA == RuleResult(unitArgs.rules[1], unitArgs.env)
            envA == IF resA.fDict THEN EnvUpdate(unitArgs.env, resA.items)
                    ELSE unitArgs.env
            resB == RuleResult(unitArgs.rules[2], envA)
        IN  oEnv = (IF resB.fDict THEN EnvUpdate(envA, resB.items) ELSE envA)

\* The first rule derived VBOX_WITH_DOCS from VBOX_OSE and the second derived
\* VBOX_OSE from VBOX_WITH_DOCS, which it read as the first rule left it.
C15_Witness ==
    /\ EnvReturned("transform")
    /\ unitArgs.rules =
         << [ kind |-> "derive", sRead |-> "VBOX_OSE", sWrite |-> "VBOX_WITH_DOCS" ],
            [ kind |-> "derive", sRead |-> "VBOX_WITH_DOCS", sWrite |-> "VBOX_OSE" ] >>
    /\ { "VBOX_OSE", "VBOX_WITH_DOCS" } \subseteq DOMAIN unitArgs.env
    /\ unitArgs.env["VBOX_OSE"] = PyStr("1")
    /\ unitArgs.env["VBOX_WITH_DOCS"] = PyStr("")
    /\ oEnv["VBOX_WITH_DOCS"] = PyStr("1x")
    /\ oEnv["VBOX_OSE"] = PyStr("1xx")

\* modify left every key but key as it was and created none.
OthersUnchanged(key) ==
    /\ DOMAIN oEnv = DOMAIN unitArgs.env
    /\ \A k \in DOMAIN oEnv \ { key } : oEnv[k] = unitArgs.env[k]

\* modify on an absent key raised KeyError and left the store as it was.
AbsentKeyRaises ==
    unitArgs.key \notin DOMAIN unitArgs.env
        => sExc = "KeyError" /\ oEnv = unitArgs.env

C17_ScriptTransformIdempotent ==
    /\ EnvReturned("script again") => oEnv = unitArgs.env
    /\ EnvReturned("script") \/ EnvReturned("script again")
         => oEnv = transform(unitArgs.env, envTransformRules)

\* The rule list of main() was applied twice to a store in which rules fired.
C17_Witness ==
    /\ EnvReturned("script again")
    /\ "VBOX_ONLY_ADDITIONS" \in DOMAIN oEnv
    /\ oEnv["VBOX_ONLY_ADDITIONS"] = PyStr("1")
    /\ "VBOX_WITH_WEBSERVICES" \in DOMAIN oEnv

\* The sequence as starts with the sequence asHead.
IsPrefixSeq(asHead, as) ==
    /\ Len(asHead) <= Len(as)
    /\ \A i \in 1..Len(asHead) : as[i] = asHead[i]

\* The custom root of library n for sSub ("include" or "lib") when one is set and
\* exists, followed by the source tree root when it exists.
LocalRoots(n, sSub) ==
    (IF aoLibs[n].sCustomPath # None /\ PathExists(OsPathJoin(aoLibs[n].sCustomPath, sSub))
     THEN << OsPathJoin(aoLibs[n].sCustomPath, sSub) >> ELSE << >>)
    \o (IF PathExists(OsPathJoin(g_sScriptPath, "src/libs"))
        THEN << OsPathJoin(g_sScriptPath, "src/libs") >> ELSE << >>)

\* C18: on every build target the include and the library search paths start
\* with the custom root, when set and existing, and then the source tree root,
\* when existing, ahead of every system directory.
C18_LocalRootsFirst ==
    \A n \in LibSet :
        LibSearched(n)
            => /\ IsPrefixSeq(LocalRoots(n, "include"), getIncSearchPaths(n, aoLibs[n]))
               /\ IsPrefixSeq(LocalRoots(n, "lib"), getLibSearchPaths(n, aoLibs[n]))

\* The multiarch include directory of the host.
MultiarchInc == "/usr/include/" \o getLinuxGnuTypeFromPlatform

\* No header of library n is a file below the custom or the source tree root.
NoLocalHeader(n) ==
    \A d \in Range(LocalRoots(n, "include")), h \in HeaderNames(n) :
        OsPathJoin(d, h) \notin fsFiles

\* C19: on Linux and Solaris a header that exists both in the multiarch
\* directory and in the generic system directory /usr/include is taken from the
\* multiarch directory, which comes first among the system directories.
C19_MultiarchBeforeGeneric ==
    \A n \in LibSet :
        /\ LibSearched(n)
        /\ g_enmBuildTarget \in { LINUX, SOLARIS }
        /\ NoLocalHeader(n)
        /\ \E h \in HeaderNames(n) :
              /\ OsPathJoin(MultiarchInc, h) \in fsFiles
              /\ OsPathJoin("/usr/include", h) \in fsFiles
        => aoLibs[n].sIncPath = MultiarchInc

\* The library search paths of n that hold a file whose name starts with a
\* basename of n and ends with a library extension of the build target.
NamedLibDirs(n) ==
    { d \in Range(getLibSearchPaths(n, aoLibs[n])) :
        \E p \in fsFiles, b \in Range(g_aoLibs[n].asLibFiles), e \in Range(LibExts) :
            /\ ChildName(d, p) # None
            /\ StartsWith(ChildName(d, p), b)
            /\ EndsWith(ChildName(d, p), e) }

\* The first element of the sequence as that is in the set S.
FirstIn(as, S) == as[CHOOSE i \in 1..Len(as) : as[i] \in S /\ \A j \in 1..(i - 1) : as[j] \notin S]

\* C20: checkLib succeeds only if a library search path holds a file named after
\* a basename of the library with a library extension, the library root is then
\* the first such path, and it fails with an error when there is no such file.
C20_LibNamedAfterBasename ==
    \A n \in LibSet :
        /\ LibSearched(n)
        /\ g_aoLibs[n].asLibFiles # << >>
        /\ aoLibs[n].sIncPath # None
        => IF NamedLibDirs(n) = { }
           THEN aoLibs[n].fHave = "False" /\ g_cErrors = 1
           ELSE /\ aoLibs[n].fHave = "True"
                /\ aoLibs[n].sLibPath
                     = FirstIn(getLibSearchPaths(n, aoLibs[n]), NamedLibDirs(n))

-----------------------------------------------------------------------------
(* Properties of the artifacts                                             *)

\* The texts of the complete files named sFile.
TextsOf(sFile) == { f[3] : f \in { g \in artifacts : g[1] = sFile /\ g[2] = "complete" } }

\* The values the text gives to sKey, one for each line that assigns it.
LinesFor(text, sKey) == { i \in 1..Len(text.lines) : text.lines[i][1] = sKey }

\* The text assigns sKey in a line of the store or of the library loop.
HasKey(text, sKey) ==
    \/ LinesFor(text, sKey) # { }
    \/ \E kv \in text.store : kv[1] = sKey

\* C21: AutoConfig.kmk holds, for every library of the catalog, exactly one
\* enablement key, with the value 1 when the library was found and 0 otherwise,
\* so 0 for a disabled library; it holds an include or a library path key of a
\* library only when the library was found.
C21_KmkEnablementAndPaths ==
    \A text \in TextsOf("AutoConfig.kmk") :
        \A n \in LibSet :
            LET sFlag == "VBOX_WITH_" \o VarBase(n)
            IN  /\ Cardinality(LinesFor(text, sFlag)) = 1
                /\ \A kv \in text.store : kv[1] # sFlag
                /\ \A i \in LinesFor(text, sFlag) :
                      text.lines[i][2] = (IF aoLibs[n].fHave = "True" THEN "1" ELSE "0")
                /\ aoLibs[n].fDisabled /\ Called("performCheck", n)
                      => \A i \in LinesFor(text, sFlag) : text.lines[i][2] = "0"
                /\ \/ HasKey(text, "SDK_" \o VarBase(n) \o "_INCS")
                   \/ HasKey(text, "SDK_" \o VarBase(n) \o "_LIBS")
                   => aoLibs[n].fHave = "True"

\* AutoConfig.kmk was written after a library was looked for and not found
\* although its header exists.
C21_Witness ==
    /\ TextsOf("AutoConfig.kmk") # { }
    /\ oCur = "zlib1g"
    /\ aoLibs["zlib1g"].fHave = "False"
    /\ aoLibs["zlib1g"].sIncPath # None

\* AutoConfig.kmk was written after the check of a disabled library.
C21_DisabledWritten ==
    /\ TextsOf("AutoConfig.kmk") # { }
    /\ oCur = "zlib1g"
    /\ aoLibs["zlib1g"].fDisabled
    /\ Called("performCheck", "zlib1g")

-----------------------------------------------------------------------------
(* Properties of the store of main(), over SpecStore                       *)

\* C22: after each store operation of the script every key of the store is an
\* upper-case string and every value is a string.
C22_StoreHoldsStrings ==
    pc \in { "updated", "set", "transformed" } =>
        \A k \in DOMAIN oEnv : Upper(k) = k /\ oEnv[k].t = "str"

\* The part of C22 the code has: every key is upper case.
C22_KeysUpperCase ==
    pc \in { "updated", "set", "transformed" } => \A k \in DOMAIN oEnv : Upper(k) = k

\* The store at the end of the pipeline gives sKey the empty string.
SetToEmpty(sKey) == sKey \in DOMAIN oEnv /\ oEnv[sKey] = PyStr("")

\* C24: the pipeline sets VBOX_WITH_DOCS_PACKING to the empty string when the
\* run is given --only-additions or --disable-docs, and does not write the key
\* for a run with neither option.
C24_DocsPackingOnlyOnRequest ==
    pc = "transformed" =>
        IF "--only-additions" \in oArgs \/ "--disable-docs" \in oArgs
        THEN SetToEmpty("VBOX_WITH_DOCS_PACKING")
        ELSE "VBOX_WITH_DOCS_PACKING" \notin DOMAIN oEnv

\* What the code does instead: the key is set to the empty string in every run.
C24_DocsPackingAlways ==
    pc = "transformed" => SetToEmpty("VBOX_WITH_DOCS_PACKING")

\* C25: the pipeline sets VBOX_WITH_QTGUI to the empty string when the run is
\* given --disable-qt6, and does not write the key otherwise.
C25_QtGuiFollowsDisableQt ==
    pc = "transformed" =>
        IF OptDisable("qt6") \in oArgs
        THEN SetToEmpty("VBOX_WITH_QTGUI")
        ELSE "VBOX_WITH_QTGUI" \notin DOMAIN oEnv

\* What the code does instead: the key is never written.
C25_QtGuiNeverWritten ==
    "VBOX_WITH_QTGUI" \notin DOMAIN oEnv

-----------------------------------------------------------------------------
(* Properties of the tool status, over SpecProbe                           *)

\* The tools performCheck resolves with checkWhich over asCmd, without a callback.
LookupTools == { n \in CmdTools : g_aoTools[n].fnCallback = None }

\* C26: a tool resolved through executable lookup whose status is Found has a
\* command path, so that getStatusString does not raise, whichever of its
\* binaries are found and missing.
C26_FoundToolHasCmdPath ==
    \A n \in LookupTools :
        ToolSearched(n) /\ aoTools[n].fHave = "True"
            => aoTools[n].sCmdPath # None /\ ~ToolStatusRaises(aoTools[n])

\* The part of C26 the code has: a Found tool of a check that counted no error
\* holds a command path, so the summary table, printed only when no error was
\* counted, does not raise.
C26_FoundWithoutErrorHasCmdPath ==
    \A n \in LookupTools :
        ToolSearched(n) /\ aoTools[n].fHave = "True" /\ g_cErrors = 0
            => aoTools[n].sCmdPath # None

-----------------------------------------------------------------------------
(* Properties of the writes of main(), over Spec                           *)

\* C23: a write that fails after the file was opened leaves no partial file
\* behind, and a failed write is counted, so that the run ends with exit code 1.
C23_WriteAllOrNothing ==
    pc = "done" =>
        /\ \A f \in artifacts : f[2] = "complete"
        /\ rcExit = 0 /\ artifacts # { }
           => { << f[1], f[2] >> : f \in artifacts }
                = { << "AutoConfig.kmk", "complete" >>, << "env.sh", "complete" >> }

\* The part of C23 the code has: a run that left a partial file, or wrote only
\* one of the two files, ends with exit code 1.
C23_FailedWriteCounted ==
    pc = "done" /\ artifacts # { }
                /\ { << f[1], f[2] >> : f \in artifacts }
                     # { << "AutoConfig.kmk", "complete" >>, << "env.sh", "complete" >> }
        => rcExit = 1 /\ g_cErrors > 0

\* A run whose write of AutoConfig.kmk failed after the open.
C23_PartialLeft ==
    /\ pc = "done"
    /\ << "AutoConfig.kmk", "partial", NoText >> \in artifacts
    /\ rcExit = 1

-----------------------------------------------------------------------------
(* Properties of the --only filters, over Spec                             *)

\* The libraries the command line selects with --only-<lib>.
OnlyLibs == { n \in LibSet : OptOnly(n) \in oArgs }

\* Library n was touched by a check or a verification.
LibChecked(n) ==
    \/ Called("performCheck", n)
    \/ Called("search", n)
    \/ Called("compileAndExecute", n)

\* C27: with one or more --only-<lib> options only selected libraries that
\* apply to the build target are ever checked; every other library of the
\* catalog is NotChecked in every state of the run, and AutoConfig.kmk gives it
\* the enablement 0 and no path key, whatever files exist.
C27_OnlyFilterFrame ==
    OnlyLibs # { } =>
        /\ \A n \in LibSet : LibChecked(n) => n \in OnlyLibs /\ ~Inapplicable(n)
        /\ \A n \in LibSet \ OnlyLibs :
              /\ aoLibs[n].fHave = None
              /\ \A text \in TextsOf("AutoConfig.kmk") :
                    LET sFlag == "VBOX_WITH_" \o VarBase(n)
                    IN  /\ LinesFor(text, sFlag) # { }
                        /\ \A i \in LinesFor(text, sFlag) : text.lines[i][2] = "0"
                        /\ ~HasKey(text, "SDK_" \o VarBase(n) \o "_INCS")
                        /\ ~HasKey(text, "SDK_" \o VarBase(n) \o "_LIBS")

\* A run with --only-zlib1g checked zlib1g and wrote AutoConfig.kmk while a
\* header of another library exists.
C27_Witness ==
    /\ pc = "done"
    /\ OptOnly("zlib1g") \in oArgs
    /\ Called("performCheck", "zlib1g")
    /\ TextsOf("AutoConfig.kmk") # { }
    /\ OsPathJoin(OtherLibFile[1], OtherLibFile[2]) \in fsFiles
    /\ ~Called("performCheck", "xmu")

====
